---- MODULE Spec2Model ----
(***************************************************************************)
(* Environment resolution of workload manifests (package manifest):        *)
(* BackendService.ApplyEnv and WorkerService.ApplyEnv, with the reflective *)
(* merge (mergo.Merge with WithOverride and WithOverwriteWithEmptyValue,   *)
(* and for the worker service the workloadTransformer) they call.          *)
(*                                                                         *)
(* Go values are modelled with their sharing: a pointer, a map and a slice *)
(* are references to cells of one heap, a struct is a record held inline.  *)
(* A method with a value receiver works on a copy of the struct, which     *)
(* holds the same references as the original.                              *)
(***************************************************************************)
EXTENDS Integers, Sequences, FiniteSets, TLC

VARIABLES kind, base, heap0, heap, results, thr, op

vars == <<kind, base, heap0, heap, results, thr, op>>

(***************************************************************************)
(* Bounds of the model.                                                    *)
(***************************************************************************)
\* number of distinct keys a map[string]string of the input may hold
MaxKeys == 2
\* number of ApplyEnv calls made one after the other
MaxCalls == 2

(***************************************************************************)
(* References and the heap.                                                *)
(***************************************************************************)
\* the nil pointer, nil map and nil slice
NIL == <<>>

\* h with cell a holding val (allocating a when it is new)
Put(h, a, val) == (a :> val) @@ h

\* the union of two heaps with disjoint cells
Join(h1, h2) == h1 @@ h2

EmptyHeap == [x \in {} |-> 0]

EmptyMap == [x \in {} |-> ""]

(***************************************************************************)
(* Types of the manifest, as reflect sees them.                            *)
(***************************************************************************)
TInt == [k |-> "int"]
TStr == [k |-> "string"]
TBool == [k |-> "bool"]
TPtr(t) == [k |-> "ptr", elem |-> t]
TMap(t) == [k |-> "map", elem |-> t]
TSlice == [k |-> "slice"]
TStruct(n, fs, ts) == [k |-> "struct", name |-> n, fields |-> fs, types |-> ts]

DockerBuildArgsT ==
  TStruct("DockerBuildArgs", <<"Context", "Dockerfile", "Args", "Target", "CacheFrom">>,
          [Context |-> TPtr(TStr), Dockerfile |-> TPtr(TStr), Args |-> TMap(TStr),
           Target |-> TPtr(TStr), CacheFrom |-> TSlice])

BuildArgsOrStringT ==
  TStruct("BuildArgsOrString", <<"BuildString", "BuildArgs">>,
          [BuildString |-> TPtr(TStr), BuildArgs |-> DockerBuildArgsT])

ImageT ==
  TStruct("Image", <<"Build", "Location", "DockerLabels", "DependsOn">>,
          [Build |-> BuildArgsOrStringT, Location |-> TPtr(TStr),
           DockerLabels |-> TMap(TStr), DependsOn |-> TMap(TStr)])

ContainerHealthCheckT ==
  TStruct("ContainerHealthCheck",
          <<"Command", "Interval", "Retries", "Timeout", "StartPeriod">>,
          [Command |-> TSlice, Interval |-> TPtr(TInt), Retries |-> TPtr(TInt),
           Timeout |-> TPtr(TInt), StartPeriod |-> TPtr(TInt)])

ServiceImageWithPortT ==
  TStruct("ServiceImageWithPort", <<"Image", "Port">>,
          [Image |-> ImageT, Port |-> TPtr(TInt)])

imageWithPortAndHealthcheckT ==
  TStruct("imageWithPortAndHealthcheck", <<"ServiceImageWithPort", "HealthCheck">>,
          [ServiceImageWithPort |-> ServiceImageWithPortT,
           HealthCheck |-> TPtr(ContainerHealthCheckT)])

ImageWithHealthcheckT ==
  TStruct("ImageWithHealthcheck", <<"Image", "HealthCheck">>,
          [Image |-> ImageT, HealthCheck |-> TPtr(ContainerHealthCheckT)])

AutoscalingT ==
  TStruct("Autoscaling", <<"Range", "CPU">>,
          [Range |-> TPtr(TStr), CPU |-> TPtr(TInt)])

CountT ==
  TStruct("Count", <<"Value", "Autoscaling">>,
          [Value |-> TPtr(TInt), Autoscaling |-> AutoscalingT])

ExecuteCommandConfigT ==
  TStruct("ExecuteCommandConfig", <<"Enable">>, [Enable |-> TPtr(TBool)])

ExecuteCommandT ==
  TStruct("ExecuteCommand", <<"Enable", "Config">>,
          [Enable |-> TPtr(TBool), Config |-> ExecuteCommandConfigT])

TaskConfigT ==
  TStruct("TaskConfig", <<"CPU", "Memory", "Count", "ExecuteCommand", "Variables", "Secrets">>,
          [CPU |-> TPtr(TInt), Memory |-> TPtr(TInt), Count |-> CountT,
           ExecuteCommand |-> ExecuteCommandT,
           Variables |-> TMap(TStr), Secrets |-> TMap(TStr)])

LoggingT ==
  TStruct("Logging", <<"Image", "Destination">>,
          [Image |-> TPtr(TStr), Destination |-> TMap(TStr)])

SidecarConfigT ==
  TStruct("SidecarConfig", <<"Port", "Image", "CredsParam">>,
          [Port |-> TPtr(TStr), Image |-> TPtr(TStr), CredsParam |-> TPtr(TStr)])

vpcConfigT ==
  TStruct("vpcConfig", <<"Placement">>, [Placement |-> TPtr(TStr)])

NetworkConfigT ==
  TStruct("NetworkConfig", <<"VPC">>, [VPC |-> TPtr(vpcConfigT)])

BackendServiceConfigT ==
  TStruct("BackendServiceConfig",
          <<"ImageConfig", "TaskConfig", "Logging", "Sidecars", "Network">>,
          [ImageConfig |-> imageWithPortAndHealthcheckT, TaskConfig |-> TaskConfigT,
           Logging |-> TPtr(LoggingT), Sidecars |-> TMap(TPtr(SidecarConfigT)),
           Network |-> NetworkConfigT])

SubscribeConfigT ==
  TStruct("SubscribeConfig", <<"Topics">>, [Topics |-> TPtr(TSlice)])

WorkerServiceConfigT ==
  TStruct("WorkerServiceConfig",
          <<"ImageConfig", "TaskConfig", "Logging", "Sidecars", "Subscribe", "Network">>,
          [ImageConfig |-> ImageWithHealthcheckT, TaskConfig |-> TaskConfigT,
           Logging |-> TPtr(LoggingT), Sidecars |-> TMap(TPtr(SidecarConfigT)),
           Subscribe |-> TPtr(SubscribeConfigT), Network |-> TPtr(NetworkConfigT)])

WorkloadT ==
  TStruct("Workload", <<"Name", "Type">>, [Name |-> TPtr(TStr), Type |-> TPtr(TStr)])

ConfigT(kd) == IF kd = "backend" THEN BackendServiceConfigT ELSE WorkerServiceConfigT

\* BackendService and WorkerService: the inlined Workload, the inlined
\* config and the Environments map of pointers to configs
ServiceT(kd) ==
  TStruct("Service", <<"Workload", "Config", "Environments">>,
          [Workload |-> WorkloadT, Config |-> ConfigT(kd),
           Environments |-> TMap(TPtr(ConfigT(kd)))])

(***************************************************************************)
(* Plain values.  A value of the input is written without references: an   *)
(* unset pointer, map or slice is <<>>, a set one is <<x>>.  Store lays a  *)
(* plain value out on the heap (as the YAML decoder does, every pointer,   *)
(* map and slice in a cell of its own), ValueOf reads one back.            *)
(***************************************************************************)
RECURSIVE Zero(_)
\* the zero value of a type, as a plain value
Zero(t) ==
  CASE t.k = "int" -> 0
    [] t.k = "string" -> ""
    [] t.k = "bool" -> FALSE
    [] t.k = "struct" -> [f \in DOMAIN t.types |-> Zero(t.types[f])]
    [] OTHER -> <<>>

RECURSIVE StoreCells(_, _, _)
RECURSIVE StoreRef(_, _, _)
\* the reference-level value of plain value pv of type t, its cells being
\* named by the path a
StoreRef(pv, t, a) ==
  CASE t.k \in {"int", "string", "bool"} -> pv
    [] t.k = "struct" -> [f \in DOMAIN t.types |-> StoreRef(pv[f], t.types[f], Append(a, f))]
    [] OTHER -> IF pv = <<>> THEN NIL ELSE a

\* the cells that hold plain value pv of type t
StoreCells(pv, t, a) ==
  CASE t.k \in {"int", "string", "bool"} -> EmptyHeap
    [] t.k = "struct" ->
         LET parts == {StoreCells(pv[f], t.types[f], Append(a, f)) : f \in DOMAIN t.types}
         IN Join([x \in UNION {DOMAIN p : p \in parts} |->
                    (CHOOSE p \in parts : x \in DOMAIN p)[x]], EmptyHeap)
    [] t.k = "slice" -> IF pv = <<>> THEN EmptyHeap ELSE Put(EmptyHeap, a, pv[1])
    [] t.k = "ptr" ->
         IF pv = <<>> THEN EmptyHeap
         ELSE Put(StoreCells(pv[1], t.elem, a), a, StoreRef(pv[1], t.elem, a))
    [] t.k = "map" ->
         IF pv = <<>> THEN EmptyHeap
         ELSE LET m == pv[1]
                  RECURSIVE G(_)
                  G(ks) == IF ks = {} THEN EmptyHeap
                           ELSE LET key == CHOOSE x \in ks : TRUE
                                IN Join(G(ks \ {key}), StoreCells(m[key], t.elem, Append(a, key)))
              IN Put(G(DOMAIN m), a,
                     [key \in DOMAIN m |-> StoreRef(m[key], t.elem, Append(a, key))])

RECURSIVE ValueOf(_, _, _)
\* the plain value of the reference-level value v of type t in heap h
ValueOf(h, v, t) ==
  CASE t.k \in {"int", "string", "bool"} -> v
    [] t.k = "struct" -> [f \in DOMAIN t.types |-> ValueOf(h, v[f], t.types[f])]
    [] t.k = "slice" -> IF v = NIL THEN <<>> ELSE <<h[v]>>
    [] t.k = "ptr" -> IF v = NIL THEN <<>> ELSE <<ValueOf(h, h[v], t.elem)>>
    [] t.k = "map" ->
         IF v = NIL THEN <<>>
         ELSE <<[key \in DOMAIN h[v] |-> ValueOf(h, h[v][key], t.elem)]>>

RECURSIVE Refs(_, _, _)
\* the maps and slices reachable from v: the cells two manifests can share
Refs(h, v, t) ==
  CASE t.k \in {"int", "string", "bool"} -> {}
    [] t.k = "struct" -> UNION {Refs(h, v[f], t.types[f]) : f \in DOMAIN t.types}
    [] t.k = "slice" -> IF v = NIL THEN {} ELSE {v}
    [] t.k = "ptr" -> IF v = NIL THEN {} ELSE Refs(h, h[v], t.elem)
    [] t.k = "map" ->
         IF v = NIL THEN {}
         ELSE {v} \cup UNION {Refs(h, h[v][key], t.elem) : key \in DOMAIN h[v]}

(***************************************************************************)
(* mergo.Merge(dst, src, WithOverride, WithOverwriteWithEmptyValue         *)
(* [, WithTransformers(workloadTransformer{})]): deepMerge by the kind of  *)
(* dst.  A nil pointer of src leaves dst alone; a pointer set on both      *)
(* sides is merged through, into the cell dst points to; a map is merged   *)
(* key by key into the map dst refers to; a slice is replaced.             *)
(***************************************************************************)
\* mergo.Merge called without mergo.WithOverride
WithoutOverride == FALSE

WithOverride == TRUE
WithOverwriteWithEmptyValue == TRUE

RECURSIVE isEmptyValue(_, _, _)
isEmptyValue(h, v, t) ==
  CASE t.k = "int" -> v = 0
    [] t.k = "string" -> v = ""
    [] t.k = "bool" -> ~v
    [] t.k = "struct" -> FALSE
    [] t.k = "slice" -> IF v = NIL THEN TRUE ELSE Len(h[v]) = 0
    [] t.k = "map" -> IF v = NIL THEN TRUE ELSE DOMAIN h[v] = {}
    [] t.k = "ptr" -> IF v = NIL THEN TRUE ELSE isEmptyValue(h, h[v], t.elem)

RECURSIVE IsZero(_, _)
\* reflect.Value.IsZero
IsZero(v, t) ==
  CASE t.k = "int" -> v = 0
    [] t.k = "string" -> v = ""
    [] t.k = "bool" -> ~v
    [] t.k = "struct" -> \A f \in DOMAIN t.types : IsZero(v[f], t.types[f])
    [] OTHER -> v = NIL

RECURSIVE deepMerge(_, _, _, _, _, _, _)
RECURSIVE mergeFields(_, _, _, _, _, _, _, _)
RECURSIVE mergeKeys(_, _, _, _, _, _, _)
RECURSIVE transformImage(_, _, _, _)

\* the struct case of deepMerge: fields i.. of dst, in declaration order
mergeFields(h, dst, src, t, tr, a, canSet, i) ==
  IF i > Len(t.fields) THEN [h |-> h, v |-> dst]
  ELSE LET f == t.fields[i]
           r == deepMerge(h, dst[f], src[f], t.types[f], tr, Append(a, f), canSet)
       IN IF r.v = dst[f] /\ r.h = h   \* the field is as it was
          THEN mergeFields(h, dst, src, t, tr, a, canSet, i + 1)
          ELSE mergeFields(r.h, [dst EXCEPT ![f] = r.v], src, t, tr, a, canSet, i + 1)

\* the map case of deepMerge: the keys ks of src, merged into the map cell d
mergeKeys(h, d, src, t, tr, a, ks) ==
  IF ks = {} THEN h
  ELSE LET key == CHOOSE x \in ks : TRUE
           srcElement == h[src][key]
           valid == key \in DOMAIN h[d]
           dstElement == IF valid THEN h[d][key] ELSE NIL
           te == t.elem
           h1 == IF te.k \in {"struct", "ptr", "map"} /\ valid
                 THEN deepMerge(h, dstElement, srcElement, te, tr, Append(a, key), FALSE).h
                 ELSE h
           keep == valid /\ ~isEmptyValue(h1, dstElement, te) /\ te.k \in {"map", "slice"}
           set == ~keep /\ ((te.k # "ptr" /\ WithOverride) \/ ~valid
                            \/ isEmptyValue(h1, dstElement, te))
           h2 == IF set THEN Put(h1, d, [x \in (DOMAIN h1[d]) \cup {key} |->
                                           IF x = key THEN srcElement ELSE h1[d][x]])
                 ELSE h1
       IN mergeKeys(h2, d, src, t, tr, a, ks \ {key})

\* deepMerge(dst, src): the heap after it and the value of dst after it.
\* tr: the Image transformer is registered; a: the path of dst, naming the
\* map it may allocate; canSet: dst.CanSet()
deepMerge(h, dst, src, t, tr, a, canSet) ==
  IF tr /\ t.k = "struct" /\ t.name = "Image" /\ ~isEmptyValue(h, dst, t)
  THEN transformImage(h, dst, src, a)
  ELSE
  CASE t.k = "struct" -> mergeFields(h, dst, src, t, tr, a, canSet, 1)
    [] t.k = "map" ->
         IF dst = NIL /\ src # NIL /\ ~canSet THEN [h |-> h, v |-> dst]
         ELSE LET made == dst = NIL /\ src # NIL
                  d == IF made THEN a ELSE dst
                  h1 == IF made THEN Put(h, a, EmptyMap) ELSE h
              IN IF src = NIL THEN [h |-> h1, v |-> d]
                 ELSE [h |-> mergeKeys(h1, d, src, t, tr, a, DOMAIN h1[src]), v |-> d]
    [] t.k = "slice" ->
         IF canSet
            /\ (~isEmptyValue(h, src, t) \/ WithOverwriteWithEmptyValue)
            /\ (WithOverride \/ isEmptyValue(h, dst, t))
         THEN [h |-> h, v |-> src]
         ELSE [h |-> h, v |-> dst]
    [] t.k = "ptr" ->
         IF src = NIL THEN [h |-> h, v |-> dst]
         ELSE IF dst = NIL
              THEN IF canSet /\ (WithOverride \/ isEmptyValue(h, dst, t))
                   THEN [h |-> h, v |-> src]
                   ELSE [h |-> h, v |-> dst]
              ELSE LET r == deepMerge(h, h[dst], h[src], t.elem, tr, a, TRUE)
                   IN [h |-> Put(r.h, dst, r.v), v |-> dst]
    [] OTHER ->
         IF (isEmptyValue(h, dst, t) \/ WithOverride)
            /\ (~isEmptyValue(h, src, t) \/ WithOverwriteWithEmptyValue)
            /\ canSet
         THEN [h |-> h, v |-> src]
         ELSE [h |-> h, v |-> dst]

\* transformImage: the default merge runs on a copy of the destination
\* Image (dst.Interface().(Image)): what it writes into the maps the copy
\* shares with dst is kept, what it sets in the copy's own fields is lost.
\* Then Build and Location are both set from src when src sets either.
transformImage(h, dst, src, a) ==
  LET r == mergeFields(h, dst, src, ImageT, FALSE, <<"copy">> \o a, TRUE, 1)
  IN IF ~IsZero(src["Build"], BuildArgsOrStringT) \/ ~IsZero(src["Location"], TPtr(TStr))
     THEN [h |-> r.h, v |-> [dst EXCEPT !["Build"] = src["Build"],
                                        !["Location"] = src["Location"]]]
     ELSE [h |-> r.h, v |-> dst]

(***************************************************************************)
(* ApplyEnv.                                                               *)
(***************************************************************************)
\* Count.IsEmpty and Autoscaling.IsEmpty: no sub-field is set
CountIsEmpty(c) ==
  /\ c["Value"] = NIL
  /\ \A f \in DOMAIN AutoscalingT.types : c["Autoscaling"][f] = NIL

\* applyCount without the IsEmpty guard: the overlay's count always assigned
applyCountUnguarded(s, overrideConfig) ==
  [s EXCEPT !["Config"]["TaskConfig"]["Count"] = overrideConfig["TaskConfig"]["Count"]]

\* applyCount left out: the count is merged like any other field
applyCountSkipped(s, overrideConfig) == s

\* envCount := overrideConfig.TaskConfig.Count;
\* if !envCount.IsEmpty() { s.TaskConfig.Count = envCount }
applyCount(s, overrideConfig) ==
  LET envCount == overrideConfig["TaskConfig"]["Count"]
  IN IF ~CountIsEmpty(envCount)
     THEN [s EXCEPT !["Config"]["TaskConfig"]["Count"] = envCount]
     ELSE s

\* the second argument of mergo.Merge: BackendService{BackendServiceConfig:
\* *overrideConfig}, WorkerService{WorkerServiceConfig: *overrideConfig}
overrideService(overrideConfig) ==
  [Workload |-> [Name |-> NIL, Type |-> NIL], Config |-> overrideConfig, Environments |-> NIL]

\* BackendService.ApplyEnv passes no transformer, WorkerService.ApplyEnv
\* passes workloadTransformer{}
withTransformers(kd) == kd = "worker"

\* clearEnvironments left out
keepEnvironments(s) == s

\* s.Environments = nil, on the path that merged
clearEnvironments(s) == [s EXCEPT !["Environments"] = NIL]

\* a lookup that falls back to the "test" overlay for a name with no entry
lookupEnvFallback(h, s, envName) ==
  IF s["Environments"] = NIL THEN [ok |-> FALSE, overrideConfig |-> NIL]
  ELSE IF envName \in DOMAIN h[s["Environments"]]
       THEN [ok |-> TRUE, overrideConfig |-> h[s["Environments"]][envName]]
       ELSE IF "test" \in DOMAIN h[s["Environments"]]
            THEN [ok |-> TRUE, overrideConfig |-> h[s["Environments"]]["test"]]
            ELSE [ok |-> FALSE, overrideConfig |-> NIL]

\* overrideConfig, ok := s.Environments[envName]
lookupEnv(h, s, envName) ==
  IF s["Environments"] = NIL \/ envName \notin DOMAIN h[s["Environments"]]
  THEN [ok |-> FALSE, overrideConfig |-> NIL]
  ELSE [ok |-> TRUE, overrideConfig |-> h[s["Environments"]][envName]]

\* ApplyEnv on the receiver copy s in heap h, run to its return; own names
\* the call, and with it the maps the call allocates.  mergo.Merge cannot
\* fail here: both arguments have the same type.
ApplyEnv(h, s, envName, kd, own) ==
  LET l == lookupEnv(h, s, envName)
  IN IF ~l.ok \/ l.overrideConfig = NIL
     THEN [h |-> h, ret |-> s, err |-> FALSE]
     ELSE LET ov == h[l.overrideConfig]
              s1 == applyCount(s, ov)
              r == deepMerge(h, s1, overrideService(ov), ServiceT(kd),
                             withTransformers(kd), <<own>>, TRUE)
          IN [h |-> r.h, ret |-> clearEnvironments(r.v), err |-> FALSE]

(***************************************************************************)
(* The manifests the model starts from: a base config per workload kind    *)
(* and the overlays of the environments "test" and "prod", as plain        *)
(* values.  A scenario varies the fields of one group on the base and on   *)
(* both overlays and leaves the other fields of the base at their default  *)
(* and of the overlays unset.                                              *)
(***************************************************************************)
Kinds == {"backend", "worker"}

\* "dev" never has an entry in Environments
EnvNames == {"test", "prod", "dev"}

KeyNames == <<"k1", "k2", "k3", "k4">>

Keys == {KeyNames[i] : i \in 1..MaxKeys}

\* the unset map and the maps over the first n keys, n = 0..MaxKeys
FirstKeys(val) == {<<>>} \cup {<<[key \in {KeyNames[i] : i \in 1..n} |-> val]>> : n \in 0..MaxKeys}

\* the unset map and the maps over the last n keys, n = 0..MaxKeys
LastKeys(val) ==
  {<<>>} \cup {<<[key \in {KeyNames[i] : i \in (MaxKeys - n + 1)..MaxKeys} |-> val]>> : n \in 0..MaxKeys}

RECURSIVE With(_, _, _)
\* plain struct pv with the field at path set to val
With(pv, path, val) ==
  IF Len(path) = 1 THEN [pv EXCEPT ![path[1]] = val]
  ELSE [pv EXCEPT ![path[1]] = With(pv[path[1]], Tail(path), val)]

RECURSIVE At(_, _)
\* the field at path of a struct value
At(v, path) == IF path = <<>> THEN v ELSE At(v[path[1]], Tail(path))

ImagePath(kd) ==
  IF kd = "backend" THEN <<"ImageConfig", "ServiceImageWithPort", "Image">>
  ELSE <<"ImageConfig", "Image">>

BuildOf(df) ==
  [BuildString |-> <<>>,
   BuildArgs |-> [Zero(DockerBuildArgsT) EXCEPT !["Dockerfile"] = <<df>>]]

NoBuild == Zero(BuildArgsOrStringT)

PublicNetwork == [VPC |-> <<[Placement |-> <<"public">>]>>]

\* the config of newDefaultBackendService and newDefaultWorkerService
newDefaultConfig(kd) ==
  LET z == Zero(ConfigT(kd))
      a == With(z, <<"TaskConfig", "CPU">>, <<256>>)
      b == With(a, <<"TaskConfig", "Memory">>, <<512>>)
      c == With(b, <<"TaskConfig", "Count", "Value">>, <<1>>)
      d == With(c, <<"TaskConfig", "ExecuteCommand", "Enable">>, <<FALSE>>)
      e == With(d, <<"Network">>,
                IF kd = "backend" THEN PublicNetwork ELSE <<PublicNetwork>>)
  IN IF kd = "worker" THEN With(e, <<"Subscribe">>, <<Zero(SubscribeConfigT)>>) ELSE e

\* newDefaultBackendService and newDefaultWorkerService, as a plain value
newDefaultService(kd) ==
  [Workload |-> [Name |-> <<>>, Type |-> <<kd>>],
   Config |-> newDefaultConfig(kd),
   Environments |-> <<>>]

\* the base every scenario starts from: the default config, with an image
\* built from a Dockerfile
DefaultConfig(kd) ==
  With(newDefaultConfig(kd), ImagePath(kd) \o <<"Build">>, BuildOf("Dockerfile"))

HealthCheckOf(cmd, interval, retries, timeout, start) ==
  [Command |-> cmd, Interval |-> interval, Retries |-> retries,
   Timeout |-> timeout, StartPeriod |-> start]

SidecarOf(port, image, creds) ==
  [Port |-> port, Image |-> image, CredsParam |-> creds]

Slot(path, b, o1, o2) == [path |-> path, base |-> b, test |-> o1, prod |-> o2]

\* the groups of fields that vary together
Groups(kd) ==
  LET img == ImagePath(kd)
  IN << <<Slot(img \o <<"Build">>, {NoBuild, BuildOf("Dockerfile")},
              {NoBuild, BuildOf("test/Dockerfile")}, {NoBuild}),
         Slot(img \o <<"Location">>, {<<>>, <<"base:img">>},
              {<<>>, <<"test:img">>}, {<<>>, <<"prod:img">>})>>,
       <<Slot(img \o <<"DockerLabels">>, FirstKeys("b"), LastKeys("t"), {<<[key \in Keys |-> "p"]>>})>>,
       <<Slot(img \o <<"DependsOn">>, {<<>>, <<[key \in {KeyNames[1]} |-> "b"]>>},
              {<<>>, <<[key \in Keys |-> "t"]>>}, {<<EmptyMap>>})>>,
       <<Slot(<<"TaskConfig", "CPU">>, {<<>>, <<256>>}, {<<>>, <<0>>, <<512>>}, {<<1024>>}),
         Slot(<<"TaskConfig", "Memory">>, {<<512>>}, {<<>>, <<1024>>}, {<<>>})>>,
       <<Slot(<<"TaskConfig", "Count", "Value">>, {<<>>, <<3>>}, {<<>>, <<0>>}, {<<2>>}),
         Slot(<<"TaskConfig", "Count", "Autoscaling", "Range">>, {<<>>, <<"1-10">>},
              {<<>>, <<"2-5">>}, {<<>>}),
         Slot(<<"TaskConfig", "CPU">>, {<<256>>}, {<<>>, <<512>>}, {<<>>})>>,
       <<Slot(<<"TaskConfig", "Variables">>, FirstKeys("b"), LastKeys("t"), {<<[key \in Keys |-> "p"]>>})>>,
       <<Slot(<<"TaskConfig", "Secrets">>, {<<>>, <<[key \in {KeyNames[1]} |-> "b"]>>},
              {<<>>, <<[key \in Keys |-> "t"]>>}, {<<EmptyMap>>})>>,
       <<Slot(<<"Logging">>,
              {<<>>, <<[Image |-> <<"fluent">>, Destination |-> <<[key \in Keys |-> "b"]>>]>>},
              {<<>>, <<[Image |-> <<>>, Destination |-> <<>>]>>,
               <<[Image |-> <<"">>, Destination |-> <<>>]>>,
               <<[Image |-> <<>>, Destination |-> <<[key \in {KeyNames[1]} |-> "t"]>>]>>},
              {<<[Image |-> <<"p">>, Destination |-> <<EmptyMap>>]>>})>>,
       <<Slot(<<"Sidecars">>,
              {<<>>, <<[n \in {"xray"} |-> <<SidecarOf(<<"2000/udp">>, <<"xray:img">>, <<>>)>>]>>},
              {<<>>, <<[n \in {} |-> <<>>]>>,
               <<[n \in {"xray"} |-> <<SidecarOf(<<>>, <<>>, <<"arn">>)>>]>>,
               <<[n \in {"nginx"} |-> <<SidecarOf(<<"80">>, <<>>, <<>>)>>]>>},
              {<<[n \in {"xray"} |-> <<SidecarOf(<<"3000">>, <<>>, <<>>)>>]>>})>>,
       <<Slot(<<"ImageConfig", "HealthCheck">>,
              {<<>>, <<HealthCheckOf(<<<<"CMD", "true">>>>, <<10>>, <<2>>, <<5>>, <<0>>)>>},
              {<<>>, <<HealthCheckOf(<<>>, <<>>, <<5>>, <<>>, <<>>)>>,
               <<HealthCheckOf(<<<<"CMD", "false">>>>, <<>>, <<>>, <<>>, <<>>)>>},
              {<<HealthCheckOf(<<>>, <<30>>, <<>>, <<>>, <<>>)>>})>>,
       <<Slot(<<"Network">>,
              {IF kd = "backend" THEN PublicNetwork ELSE <<PublicNetwork>>},
              IF kd = "backend"
              THEN {Zero(NetworkConfigT), [VPC |-> <<[Placement |-> <<"private">>]>>]}
              ELSE {<<>>, <<[VPC |-> <<[Placement |-> <<"private">>]>>]>>},
              IF kd = "backend" THEN {Zero(NetworkConfigT)} ELSE {<<>>})>> >>

RECURSIVE Variants(_, _, _, _)
\* the configs got from cfg by giving each slot of g one of its values for
\* who: "base", "test" or "prod"
Variants(cfg, g, who, i) ==
  IF i > Len(g) THEN {cfg}
  ELSE UNION {Variants(With(cfg, g[i].path, o), g, who, i + 1) : o \in g[i][who]}

\* how Environments holds "prod": a nil entry, or an overlay
ProdShapes == {"nil", "overlay"}

\* the scenarios of group i
ScenariosOf(kd, i) ==
  { [b |-> b, test |-> o1, prod |-> o2, shape |-> sh] :
      b \in Variants(DefaultConfig(kd), Groups(kd)[i], "base", 1),
      o1 \in Variants(Zero(ConfigT(kd)), Groups(kd)[i], "test", 1),
      o2 \in Variants(Zero(ConfigT(kd)), Groups(kd)[i], "prod", 1),
      sh \in ProdShapes }

Scenarios(kd) == UNION {ScenariosOf(kd, i) : i \in 1..Len(Groups(kd))}

\* the plain value of a service with config b and the overlays of sc
ServiceOf(kd, sc) ==
  [Workload |-> [Name |-> <<"svc">>, Type |-> <<kd>>],
   Config |-> sc.b,
   Environments |->
     <<[e \in {"test", "prod"} |->
          IF e = "test" THEN <<sc.test>>
          ELSE IF sc.shape = "nil" THEN <<>> ELSE <<sc.prod>>]>>]

(***************************************************************************)
(* State.  kind: the workload kind; base: the manifest ApplyEnv is called  *)
(* on (the caller's struct); heap: the cells base, the overlays and the    *)
(* returned manifests refer to; heap0: the heap before any call.           *)
(* results: the calls made one after the other, each run to its return.    *)
(* thr: two goroutines that each run ApplyEnv on base, step by step.       *)
(***************************************************************************)
OwnerNames == <<"c1", "c2", "c3", "c4">>

Threads == {"t1", "t2"}

\* the environment each goroutine resolves
EnvOf(t) == IF t = "t1" THEN "test" ELSE "prod"

Idle == [pc |-> "start", s |-> <<>>, ov |-> NIL, i |-> 0, val |-> <<>>]

\* no function of the package has been applied
NoOp == [fn |-> "none"]

Init ==
  /\ kind \in Kinds
  /\ \E sc \in Scenarios(kind) :
       /\ base = StoreRef(ServiceOf(kind, sc), ServiceT(kind), <<"base">>)
       /\ heap0 = StoreCells(ServiceOf(kind, sc), ServiceT(kind), <<"base">>)
  /\ heap = heap0
  /\ results = <<>>
  /\ thr = [t \in Threads |-> Idle]
  /\ op = NoOp

\* the receiver of a call: the base, or the manifest an earlier call returned
Receiver(recv) == IF recv = 0 THEN base ELSE results[recv].ret

\* one call of ApplyEnv(envName), on the base or on an earlier result
Call(recv, envName) ==
  /\ Len(results) < MaxCalls
  /\ recv \in 0..Len(results)
  /\ LET s == Receiver(recv)
         r == ApplyEnv(heap, s, envName, kind, OwnerNames[Len(results) + 1])
     IN /\ heap' = r.h
        /\ results' = Append(results,
                             [recv |-> recv, env |-> envName,
                              ret |-> r.ret, err |-> r.err, pre |-> heap, post |-> r.h])
  /\ UNCHANGED <<kind, base, heap0, thr, op>>

Next == \E recv \in 0..MaxCalls, envName \in EnvNames : Call(recv, envName)

Spec == Init /\ [][Next]_vars

(***************************************************************************)
(* ApplyEnv step by step, for two goroutines on one base.                  *)
(***************************************************************************)
\* entry: the receiver is copied, the environment is looked up, and the two
\* early returns; val records the value of the manifest as it is returned
Start(t) ==
  /\ thr[t].pc = "start"
  /\ LET l == lookupEnv(heap, base, EnvOf(t))
     IN thr' = [thr EXCEPT ![t] =
                  IF ~l.ok \/ l.overrideConfig = NIL
                  THEN [pc |-> "done", s |-> base, ov |-> NIL, i |-> 0,
                        val |-> <<ValueOf(heap, base, ServiceT(kind))>>]
                  ELSE [pc |-> "count", s |-> base, ov |-> l.overrideConfig, i |-> 0,
                        val |-> <<>>]]
  /\ UNCHANGED <<kind, base, heap0, heap, results, op>>

CountStep(t) ==
  /\ thr[t].pc = "count"
  /\ thr' = [thr EXCEPT ![t].pc = "merge", ![t].i = 1,
                        ![t].s = applyCount(thr[t].s, heap[thr[t].ov])]
  /\ UNCHANGED <<kind, base, heap0, heap, results, op>>

\* deepMerge of field i of the config (the Workload and Environments of the
\* second argument are zero and merge to no change)
MergeStep(t) ==
  /\ thr[t].pc = "merge"
  /\ LET ct == ConfigT(kind)
         f == ct.fields[thr[t].i]
         r == deepMerge(heap, thr[t].s["Config"][f], heap[thr[t].ov][f], ct.types[f],
                        withTransformers(kind), <<t, "Config", f>>, TRUE)
     IN /\ heap' = r.h
        /\ thr' = [thr EXCEPT ![t].s["Config"][f] = r.v,
                              ![t].i = thr[t].i + 1,
                              ![t].pc = IF thr[t].i = Len(ct.fields) THEN "finish" ELSE "merge"]
  /\ UNCHANGED <<kind, base, heap0, results, op>>

Finish(t) ==
  /\ thr[t].pc = "finish"
  /\ thr' = [thr EXCEPT ![t].pc = "done", ![t].s = clearEnvironments(thr[t].s),
                        ![t].val = <<ValueOf(heap, clearEnvironments(thr[t].s), ServiceT(kind))>>]
  /\ UNCHANGED <<kind, base, heap0, heap, results, op>>

NextConc == \E t \in Threads : Start(t) \/ CountStep(t) \/ MergeStep(t) \/ Finish(t)

SpecConc == Init /\ [][NextConc]_vars

(***************************************************************************)
(* What the properties speak about: call i of results, its receiver, the   *)
(* overlay registered for its environment, and plain values before and     *)
(* after it.                                                               *)
(***************************************************************************)
Calls == 1..Len(results)

\* the call that returned last.  results only grows, one call at a time, and
\* a call's record never changes, so a property of the call that returned
\* last, holding in every reachable state, is a property of every call.
Returned == {Len(results)} \ {0}

RecvOf(i) == Receiver(results[i].recv)

\* the Environments of call i's receiver, as the call found it
EnvsOf(i) ==
  IF RecvOf(i)["Environments"] = NIL THEN [e \in {} |-> NIL]
  ELSE results[i].pre[RecvOf(i)["Environments"]]

HasEntry(i) == results[i].env \in DOMAIN EnvsOf(i)

\* call i's environment has a non-nil overlay
HasOverlay(i) == HasEntry(i) /\ EnvsOf(i)[results[i].env] # NIL

\* plain values: the receiver's config before call i, the overlay's config,
\* the returned manifest's config
Before(i) == ValueOf(results[i].pre, RecvOf(i), ServiceT(kind))["Config"]

Over(i) == ValueOf(results[i].pre, results[i].pre[EnvsOf(i)[results[i].env]], ConfigT(kind))

After(i) == ValueOf(results[i].post, results[i].ret, ServiceT(kind))["Config"]

\* the entries of a plain map, an unset map having none
Entries(m) == IF m = <<>> THEN EmptyMap ELSE m[1]

\* r holds every entry of o, and every entry of b whose key o lacks
IsUnion(r, b, o) ==
  /\ \A key \in DOMAIN Entries(o) :
       key \in DOMAIN Entries(r) /\ Entries(r)[key] = Entries(o)[key]
  /\ \A key \in (DOMAIN Entries(b)) \ (DOMAIN Entries(o)) :
       key \in DOMAIN Entries(r) /\ Entries(r)[key] = Entries(b)[key]

(***************************************************************************)
(* C1 - identity law.                                                      *)
(***************************************************************************)
\* C1: when the environment has no entry in Environments, or a nil entry,
\* the config group of the manifest ApplyEnv returns is deep-equal to the
\* config group of the manifest it was called on.
C1_IdentityLaw ==
  \A i \in Returned : ~HasOverlay(i) => After(i) = Before(i) /\ ~results[i].err

\* both identity paths taken on a base whose other environment overrides
\* something: a nil entry, and no entry at all
C1_Witness ==
  \E i, j \in Calls :
    /\ results[i].recv = 0 /\ HasEntry(i) /\ ~HasOverlay(i)
    /\ results[j].recv = 0 /\ ~HasEntry(j)
    /\ ValueOf(heap0, heap0[heap0[base["Environments"]]["test"]], ConfigT(kind))
         # Zero(ConfigT(kind))

C3_ReceiverNeverMutated ==
  \A i \in Returned :
    /\ ValueOf(results[i].post, RecvOf(i), ServiceT(kind))
         = ValueOf(results[i].pre, RecvOf(i), ServiceT(kind))
    /\ Refs(results[i].post, results[i].ret, ServiceT(kind))
         \cap Refs(results[i].pre, RecvOf(i), ServiceT(kind)) = {}

\* C3, the frame part alone: the value of the receiver is unchanged
C3_ReceiverValueUnchanged ==
  \A i \in Returned :
    ValueOf(results[i].post, RecvOf(i), ServiceT(kind))
      = ValueOf(results[i].pre, RecvOf(i), ServiceT(kind))

(***************************************************************************)
(* C4 - resolutions of distinct environments are independent.              *)
(***************************************************************************)
\* the value ApplyEnv(envName) returns when run alone on the fresh base
Alone(envName) ==
  LET r == ApplyEnv(heap0, base, envName, kind, "alone")
  IN ValueOf(r.h, r.ret, ServiceT(kind))

\* C4: in every interleaving of ApplyEnv("test") and ApplyEnv("prod") on
\* one base, each returns the value it returns when run alone on a fresh
\* base.
C4_ResolutionsIndependent ==
  \A t \in Threads : thr[t].pc = "done" => thr[t].val = <<Alone(EnvOf(t))>>

\* C4 for the calls made one after the other on the base
C4_SequentialIndependent ==
  \A i \in Returned :
    results[i].recv = 0 =>
      ValueOf(results[i].post, results[i].ret, ServiceT(kind)) = Alone(results[i].env)

(***************************************************************************)
(* C5, C6 - count.                                                         *)
(***************************************************************************)
CountPath == <<"TaskConfig", "Count">>

\* C5: when the overlay's count is empty (no fixed value, no autoscaling
\* field), the resolved count equals the receiver's count, whatever else
\* the overlay sets.
C5_EmptyCountKeepsBase ==
  \A i \in Returned :
    HasOverlay(i) /\ At(Over(i), CountPath) = Zero(CountT)
      => At(After(i), CountPath) = At(Before(i), CountPath)

\* an overlay with an empty count that sets the cpu was merged into a base
\* with a fixed count of 3
C5_Witness ==
  \E i \in Calls :
    /\ HasOverlay(i) /\ At(Over(i), CountPath) = Zero(CountT)
    /\ At(Over(i), <<"TaskConfig", "CPU">>) = <<512>>
    /\ At(Before(i), CountPath \o <<"Value">>) = <<3>>
    /\ At(After(i), CountPath \o <<"Value">>) = <<3>>

\* C6: when the overlay's count is not empty, the resolved count equals
\* the overlay's count, so no sub-field of the base count survives.
C6_NonEmptyCountReplaces ==
  \A i \in Returned :
    HasOverlay(i) /\ At(Over(i), CountPath) # Zero(CountT)
      => At(After(i), CountPath) = At(Over(i), CountPath)

\* a fixed count of the base is gone under an overlay that gives a range,
\* and a range of the base is gone under an overlay that gives a fixed count
C6_Witness ==
  /\ \E i \in Calls :
       /\ HasOverlay(i)
       /\ At(Before(i), CountPath \o <<"Value">>) # <<>>
       /\ At(Over(i), CountPath \o <<"Value">>) = <<>>
       /\ At(Over(i), CountPath \o <<"Autoscaling", "Range">>) # <<>>
       /\ At(After(i), CountPath \o <<"Value">>) = <<>>
  /\ \E j \in Calls :
       /\ HasOverlay(j)
       /\ At(Before(j), CountPath \o <<"Autoscaling", "Range">>) # <<>>
       /\ At(Over(j), CountPath \o <<"Autoscaling", "Range">>) = <<>>
       /\ At(Over(j), CountPath \o <<"Value">>) # <<>>
       /\ At(After(j), CountPath \o <<"Autoscaling", "Range">>) = <<>>

(***************************************************************************)
(* C7, C8 - the image.                                                     *)
(***************************************************************************)
BuildPath == ImagePath(kind) \o <<"Build">>

LocationPath == ImagePath(kind) \o <<"Location">>

\* the overlay sets Build or Location
OverlaySetsSource(i) ==
  At(Over(i), BuildPath) # NoBuild \/ At(Over(i), LocationPath) # <<>>

\* C7: for every workload kind, Build and Location are replaced as a unit:
\* when the overlay sets at least one of them both are the overlay's in the
\* resolved manifest, when it sets neither both are the receiver's.
C7_BuildLocationAtomic ==
  \A i \in Returned :
    HasOverlay(i) =>
      IF OverlaySetsSource(i)
      THEN /\ At(After(i), BuildPath) = At(Over(i), BuildPath)
           /\ At(After(i), LocationPath) = At(Over(i), LocationPath)
      ELSE /\ At(After(i), BuildPath) = At(Before(i), BuildPath)
           /\ At(After(i), LocationPath) = At(Before(i), LocationPath)

\* C7 for the worker service alone, whose ApplyEnv registers the transformer
C7_WorkerBuildLocationAtomic == kind = "worker" => C7_BuildLocationAtomic

\* C8: in the resolved image DockerLabels and DependsOn hold every key of
\* the overlay with the overlay's value and every other key of the
\* receiver with the receiver's value, also when either map is unset.
C8_LabelsAreUnion ==
  \A i \in Returned :
    HasOverlay(i) =>
      \A f \in {"DockerLabels", "DependsOn"} :
        IsUnion(At(After(i), ImagePath(kind) \o <<f>>),
                At(Before(i), ImagePath(kind) \o <<f>>),
                At(Over(i), ImagePath(kind) \o <<f>>))

\* C8 for the backend service alone, whose ApplyEnv registers no transformer
C8_BackendLabelsAreUnion == kind = "backend" => C8_LabelsAreUnion

(***************************************************************************)
(* C9 - the ordinary fields.                                               *)
(***************************************************************************)
HealthCheckPath == <<"ImageConfig", "HealthCheck">>

OrdinaryFields ==
  {<<"TaskConfig", "CPU">>, <<"TaskConfig", "Memory">>, <<"TaskConfig", "Variables">>,
   <<"TaskConfig", "Secrets">>, <<"Logging">>, <<"Sidecars">>, HealthCheckPath}

\* C9 as claimed: an ordinary field (cpu, memory, variables, secrets,
\* logging, sidecars, health check) that the overlay sets, also to empty,
\* replaces the base field, a map being replaced whole.
C9_SetFieldReplacesBase ==
  \A i \in Returned :
    HasOverlay(i) =>
      \A p \in OrdinaryFields : At(Over(i), p) # <<>> => At(After(i), p) = At(Over(i), p)

\* the pointer field f of a struct merged field by field: the overlay's
\* value when the overlay sets it, the receiver's otherwise
PointerMerged(r, b, o, f) == r[f] = IF o[f] # <<>> THEN o[f] ELSE b[f]

\* a struct pointer: unset in the overlay it is the receiver's, unset in the
\* receiver it is the overlay's
StructPointerCases(r, b, o) ==
  /\ o = <<>> => r = b
  /\ o # <<>> /\ b = <<>> => r = o

\* C9 as amended: a cpu or memory the overlay sets, also to 0, replaces
\* the base value.  A map is not replaced whole: variables, secrets and the
\* logging destination are merged per key (the overlay's keys with the
\* overlay's values, the other base keys kept, an empty overlay map changing
\* nothing).  Logging, a health check and a sidecar set on both sides are
\* merged field by field: a sub-field the overlay sets has the overlay's
\* value, a pointer sub-field it leaves unset keeps the base's; a sidecar of
\* the base that the overlay does not name is kept.
C9_SetFieldMergesIntoBase ==
  \A i \in Returned :
    HasOverlay(i) =>
      LET b == Before(i)
          o == Over(i)
          r == After(i)
      IN /\ \A f \in {"CPU", "Memory"} : PointerMerged(r["TaskConfig"], b["TaskConfig"], o["TaskConfig"], f)
         /\ \A f \in {"Variables", "Secrets"} :
              /\ IsUnion(r["TaskConfig"][f], b["TaskConfig"][f], o["TaskConfig"][f])
              /\ DOMAIN Entries(r["TaskConfig"][f])
                   = (DOMAIN Entries(b["TaskConfig"][f])) \cup (DOMAIN Entries(o["TaskConfig"][f]))
         /\ StructPointerCases(r["Logging"], b["Logging"], o["Logging"])
         /\ o["Logging"] # <<>> /\ b["Logging"] # <<>> =>
              /\ r["Logging"] # <<>>
              /\ PointerMerged(r["Logging"][1], b["Logging"][1], o["Logging"][1], "Image")
              /\ IsUnion(r["Logging"][1]["Destination"], b["Logging"][1]["Destination"],
                         o["Logging"][1]["Destination"])
         /\ StructPointerCases(At(r, HealthCheckPath), At(b, HealthCheckPath), At(o, HealthCheckPath))
         /\ At(o, HealthCheckPath) # <<>> /\ At(b, HealthCheckPath) # <<>> =>
              /\ At(r, HealthCheckPath) # <<>>
              /\ \A f \in {"Interval", "Retries", "Timeout", "StartPeriod"} :
                   PointerMerged(At(r, HealthCheckPath)[1], At(b, HealthCheckPath)[1],
                                 At(o, HealthCheckPath)[1], f)
              /\ At(o, HealthCheckPath)[1]["Command"] # <<>> =>
                   At(r, HealthCheckPath)[1]["Command"] = At(o, HealthCheckPath)[1]["Command"]
         /\ DOMAIN Entries(r["Sidecars"])
              = (DOMAIN Entries(b["Sidecars"])) \cup (DOMAIN Entries(o["Sidecars"]))
         /\ \A n \in DOMAIN Entries(r["Sidecars"]) :
              LET rn == Entries(r["Sidecars"])[n]
              IN IF n \notin DOMAIN Entries(o["Sidecars"]) THEN rn = Entries(b["Sidecars"])[n]
                 ELSE IF n \notin DOMAIN Entries(b["Sidecars"]) THEN rn = Entries(o["Sidecars"])[n]
                 ELSE /\ rn # <<>>
                      /\ \A f \in {"Port", "Image", "CredsParam"} :
                           PointerMerged(rn[1], Entries(b["Sidecars"])[n][1],
                                         Entries(o["Sidecars"])[n][1], f)

\* the case of C9 has happened: the overlay set variables under another key
\* than the base's, and the resolved manifest has both keys, the base's
\* with the base's value and the overlay's with the overlay's
C9_Witness ==
  \E i \in Calls :
    /\ HasOverlay(i)
    /\ At(Before(i), <<"TaskConfig", "Variables">>) = <<[key \in {KeyNames[1]} |-> "b"]>>
    /\ At(Over(i), <<"TaskConfig", "Variables">>) = <<[key \in {KeyNames[MaxKeys]} |-> "t"]>>
    /\ At(After(i), <<"TaskConfig", "Variables">>)
         = <<[key \in {KeyNames[1], KeyNames[MaxKeys]} |-> IF key = KeyNames[1] THEN "b" ELSE "t"]>>

(***************************************************************************)
(* C10 - a resolved manifest resolved again.                               *)
(***************************************************************************)
\* call j was made on the manifest call i returned
OnResultOf(j, i) == results[j].recv = i

\* the value call j returned is the value of the manifest it was called on
ReturnsReceiver(j) ==
  ValueOf(results[j].post, results[j].ret, ServiceT(kind))
    = ValueOf(results[j].pre, RecvOf(j), ServiceT(kind))

MaxPathLen == 3

\* every string over the characters cs of at most n characters
RECURSIVE StringsUpTo(_, _)
StringsUpTo(cs, n) ==
  IF n = 0 THEN {<<>>}
  ELSE LET shorter == StringsUpTo(cs, n - 1)
       IN shorter \cup {Append(w, c) : w \in shorter, c \in cs}

\* an unset pointer, or a pointer to one of vals
PtrTo(vals) == {<<>>} \cup {<<v>> : v \in vals}

\* aws.StringValue
StringValue(p) == IF p = NIL THEN <<>> ELSE p[1]

\* strings.Split(s, "/")
RECURSIVE Split(_)
Split(s) ==
  IF \A i \in 1..Len(s) : s[i] # "/" THEN <<s>>
  ELSE LET i == CHOOSE j \in 1..Len(s) : s[j] = "/" /\ \A k \in 1..(j - 1) : s[k] # "/"
       IN <<SubSeq(s, 1, i - 1)>> \o Split(SubSeq(s, i + 1, Len(s)))

\* strings.Join(segs, "/")
RECURSIVE JoinSep(_)
JoinSep(segs) ==
  IF segs = <<>> THEN <<>>
  ELSE IF Len(segs) = 1 THEN segs[1]
  ELSE segs[1] \o <<"/">> \o JoinSep(Tail(segs))

\* the elements filepath.Clean keeps of segs, out being those kept so far
RECURSIVE cleanSegs(_, _, _)
cleanSegs(segs, out, rooted) ==
  IF segs = <<>> THEN out
  ELSE LET e == Head(segs)
           next == IF e = <<>> \/ e = <<".">> THEN out
                   ELSE IF e = <<".", ".">>
                        THEN IF out # <<>> /\ out[Len(out)] # <<".", ".">>
                             THEN SubSeq(out, 1, Len(out) - 1)
                             ELSE IF rooted THEN out ELSE Append(out, e)
                        ELSE Append(out, e)
       IN cleanSegs(Tail(segs), next, rooted)

\* filepath.Clean
Clean(path) ==
  IF path = <<>> THEN <<".">>
  ELSE LET rooted == path[1] = "/"
           kept == JoinSep(cleanSegs(Split(path), <<>>, rooted))
       IN IF rooted THEN <<"/">> \o kept
          ELSE IF kept = <<>> THEN <<".">> ELSE kept

\* filepath.Join
FilepathJoin(elems) ==
  LET nonEmpty == SelectSeq(elems, LAMBDA e : e # <<>>)
  IN IF nonEmpty = <<>> THEN <<>> ELSE Clean(JoinSep(nonEmpty))

\* filepath.Dir
FilepathDir(path) ==
  LET slashes == {i \in 1..Len(path) : path[i] = "/"}
      last == IF slashes = {} THEN 0 ELSE CHOOSE i \in slashes : \A j \in slashes : j <= i
  IN Clean(SubSeq(path, 1, last))

dockerfileDefaultName == <<"D", "o", "c", "k", "e", "r", "f", "i", "l", "e">>

\* (*DockerBuildArgs).isEmpty
DockerBuildArgs_isEmpty(b) ==
  /\ b["Context"] = NIL /\ b["Dockerfile"] = NIL /\ b["Args"] = NIL
  /\ b["Target"] = NIL /\ b["CacheFrom"] = NIL

\* (*BuildArgsOrString).isEmpty
BuildArgsOrString_isEmpty(b) ==
  StringValue(b["BuildString"]) = <<>> /\ DockerBuildArgs_isEmpty(b["BuildArgs"])

\* requiresBuild with no error for an image that has both sources
requiresBuildLenient(image) ==
  [required |-> image["Location"] = NIL /\ ~BuildArgsOrString_isEmpty(image["Build"]),
   err |-> image["Location"] = NIL /\ BuildArgsOrString_isEmpty(image["Build"])]

\* requiresBuild
requiresBuild(image) ==
  LET noBuild == BuildArgsOrString_isEmpty(image["Build"])
      noURL == image["Location"] = NIL
  IN IF noBuild = noURL THEN [required |-> FALSE, err |-> TRUE]
     ELSE IF image["Location"] = NIL THEN [required |-> TRUE, err |-> FALSE]
     ELSE [required |-> FALSE, err |-> FALSE]

\* BackendService.BuildRequired and WorkerService.BuildRequired, s being the
\* config of the service
BuildRequired(kd, s) == requiresBuild(At(s, ImagePath(kd)))

\* (*Image).dockerfile
dockerfile(i) ==
  IF i["Build"]["BuildArgs"]["Dockerfile"] # NIL
  THEN StringValue(i["Build"]["BuildArgs"]["Dockerfile"])
  ELSE IF i["Build"]["BuildString"] # NIL THEN StringValue(i["Build"]["BuildString"])
  ELSE <<>>

\* (*Image).context
context(i) == StringValue(i["Build"]["BuildArgs"]["Context"])

\* BuildConfig whose context is the root for every image without a context
BuildConfigRootContext(i, rootDirectory) ==
  LET df == dockerfile(i)
      ctx == context(i)
  IN [Dockerfile |-> <<FilepathJoin(<<rootDirectory, ctx,
                                      IF df # <<>> THEN df ELSE dockerfileDefaultName>>)>>,
      Context |-> <<FilepathJoin(<<rootDirectory, ctx>>)>>,
      Args |-> i["Build"]["BuildArgs"]["Args"],
      Target |-> i["Build"]["BuildArgs"]["Target"],
      CacheFrom |-> i["Build"]["BuildArgs"]["CacheFrom"]]

\* (*Image).BuildConfig: the defaults, then the three ifs in their order
BuildConfig(i, rootDirectory) ==
  LET df == dockerfile(i)
      ctx == context(i)
      d0 == FilepathJoin(<<rootDirectory, dockerfileDefaultName>>)
      c0 == rootDirectory
      d1 == IF df # <<>> /\ ctx # <<>> THEN FilepathJoin(<<rootDirectory, df>>) ELSE d0
      c1 == IF df # <<>> /\ ctx # <<>> THEN FilepathJoin(<<rootDirectory, ctx>>) ELSE c0
      d2 == IF df # <<>> /\ ctx = <<>> THEN FilepathJoin(<<rootDirectory, df>>) ELSE d1
      c2 == IF df # <<>> /\ ctx = <<>>
            THEN FilepathJoin(<<rootDirectory, FilepathDir(df)>>) ELSE c1
      d3 == IF df = <<>> /\ ctx # <<>>
            THEN FilepathJoin(<<rootDirectory, ctx, dockerfileDefaultName>>) ELSE d2
      c3 == IF df = <<>> /\ ctx # <<>> THEN FilepathJoin(<<rootDirectory, ctx>>) ELSE c2
  IN [Dockerfile |-> <<d3>>, Context |-> <<c3>>,
      Args |-> i["Build"]["BuildArgs"]["Args"],
      Target |-> i["Build"]["BuildArgs"]["Target"],
      CacheFrom |-> i["Build"]["BuildArgs"]["CacheFrom"]]

(***************************************************************************)
(* ContainerHealthCheck.apply and applyIfNotSet.  hc and other are the     *)
(* cells of the receiver and of the argument in the heap h; the heap after *)
(* the call is returned.                                                   *)
(***************************************************************************)
HealthCheckFields == <<"Command", "Interval", "Retries", "Timeout", "StartPeriod">>

\* apply that copies every field of other, the unset ones too
applyUnconditional(h, hc, other) == Put(h, hc, h[other])

\* applyIfNotSet that fills a field of the receiver whether it is set or not
applyIfNotSetOverwriting(h, hc, other) ==
  Put(h, hc, [f \in DOMAIN h[hc] |-> IF h[other][f] # NIL THEN h[other][f] ELSE h[hc][f]])

\* apply: if other.F != nil { hc.F = other.F }, field after field
RECURSIVE applyFrom(_, _, _, _)
applyFrom(h, hc, other, i) ==
  IF i > Len(HealthCheckFields) THEN h
  ELSE LET f == HealthCheckFields[i]
           h1 == IF h[other][f] # NIL THEN Put(h, hc, [h[hc] EXCEPT ![f] = h[other][f]]) ELSE h
       IN applyFrom(h1, hc, other, i + 1)

apply(h, hc, other) == applyFrom(h, hc, other, 1)

\* applyIfNotSet: if hc.F == nil && other.F != nil { hc.F = other.F }
RECURSIVE applyIfNotSetFrom(_, _, _, _)
applyIfNotSetFrom(h, hc, other, i) ==
  IF i > Len(HealthCheckFields) THEN h
  ELSE LET f == HealthCheckFields[i]
           h1 == IF h[hc][f] = NIL /\ h[other][f] # NIL
                 THEN Put(h, hc, [h[hc] EXCEPT ![f] = h[other][f]]) ELSE h
       IN applyIfNotSetFrom(h1, hc, other, i + 1)

applyIfNotSet(h, hc, other) == applyIfNotSetFrom(h, hc, other, 1)

\* newDefaultContainerHealthCheck, durations in seconds
newDefaultContainerHealthCheck ==
  HealthCheckOf(<<<<"CMD-SHELL", "curl -f http://localhost/ || exit 1">>>>,
                <<10>>, <<2>>, <<5>>, <<0>>)

(***************************************************************************)
(* parsePortMapping.                                                       *)
(***************************************************************************)
\* longest port mapping of the input, in characters
MaxPortLen == 4

defaultSidecarPort == <<"8", "0">>

\* parsePortMapping that takes the first two parts of any mapping with a "/"
parsePortMappingLoose(s) ==
  IF s = NIL THEN [port |-> <<defaultSidecarPort>>, protocol |-> NIL, err |-> FALSE]
  ELSE LET portProtocol == Split(s[1])
       IN IF Len(portProtocol) = 1
          THEN [port |-> <<portProtocol[1]>>, protocol |-> NIL, err |-> FALSE]
          ELSE [port |-> <<portProtocol[1]>>, protocol |-> <<portProtocol[2]>>, err |-> FALSE]

\* parsePortMapping
parsePortMapping(s) ==
  IF s = NIL THEN [port |-> <<defaultSidecarPort>>, protocol |-> NIL, err |-> FALSE]
  ELSE LET portProtocol == Split(s[1])
       IN CASE Len(portProtocol) = 1 ->
                 [port |-> <<portProtocol[1]>>, protocol |-> NIL, err |-> FALSE]
            [] Len(portProtocol) = 2 ->
                 [port |-> <<portProtocol[1]>>, protocol |-> <<portProtocol[2]>>, err |-> FALSE]
            [] OTHER -> [port |-> NIL, protocol |-> NIL, err |-> TRUE]

(***************************************************************************)
(* The decoders of the fields that have two forms.  A YAML node is a       *)
(* scalar (its tag and its text), a sequence, or a mapping: for each key   *)
(* it holds, whether the value can be decoded into the field of that name  *)
(* and the value decoded; badMerge marks a mapping whose merge key has no  *)
(* mapping for a value, which the decoder fails on with an error that is   *)
(* no *yaml.TypeError.  unmarshal is the function the YAML decoder passes  *)
(* to UnmarshalYAML: it decodes what it can into the target and reports    *)
(* the values it could not decode as one *yaml.TypeError.                  *)
(***************************************************************************)
TrueText == <<"t", "r", "u", "e">>

\* the mapping entries decoded into the fields of target: an entry whose
\* key is no field is ignored, one whose value has the wrong type is skipped
decodeFields(n, target) ==
  [f \in DOMAIN target |->
     IF f \in DOMAIN n.entries /\ n.entries[f].good THEN n.entries[f].val ELSE target[f]]

\* unmarshal(&target), target of type t: the error (none, a *yaml.TypeError,
\* another error) and the target afterwards
unmarshal(n, target, t) ==
  CASE t.k = "struct" ->
         IF n.kind # "mapping" THEN [err |-> "type", v |-> target]
         ELSE IF n.badMerge THEN [err |-> "other", v |-> target]
         ELSE [err |-> IF \E f \in DOMAIN n.entries :
                            f \in DOMAIN target /\ ~n.entries[f].good
                       THEN "type" ELSE "none",
               v |-> decodeFields(n, target)]
    [] t.k = "ptr" /\ t.elem.k = "string" ->
         IF n.kind = "scalar" THEN [err |-> "none", v |-> <<n.val>>]
         ELSE [err |-> "type", v |-> target]
    [] t.k = "ptr" /\ t.elem.k = "bool" ->
         IF n.kind = "scalar" /\ n.tag = "bool" THEN [err |-> "none", v |-> <<n.val = TrueText>>]
         ELSE [err |-> "type", v |-> target]

\* BuildArgsOrString.UnmarshalYAML that gives up on any error of the
\* structured decode
BuildArgsOrString_UnmarshalStrict(b, n) ==
  LET r1 == unmarshal(n, b["BuildArgs"], DockerBuildArgsT)
      b1 == [b EXCEPT !["BuildArgs"] = r1.v]
  IN IF r1.err # "none" THEN [err |-> r1.err, v |-> b1]
     ELSE IF ~DockerBuildArgs_isEmpty(b1["BuildArgs"])
     THEN [err |-> "none", v |-> [b1 EXCEPT !["BuildString"] = NIL]]
     ELSE [err |-> "errUnmarshalBuildOpts", v |-> b1]

\* (*BuildArgsOrString).UnmarshalYAML
BuildArgsOrString_UnmarshalYAML(b, n) ==
  LET r1 == unmarshal(n, b["BuildArgs"], DockerBuildArgsT)
      b1 == [b EXCEPT !["BuildArgs"] = r1.v]
  IN IF r1.err = "other" THEN [err |-> "other", v |-> b1]
     ELSE IF ~DockerBuildArgs_isEmpty(b1["BuildArgs"])
     THEN [err |-> "none", v |-> [b1 EXCEPT !["BuildString"] = NIL]]
     ELSE LET r2 == unmarshal(n, b1["BuildString"], TPtr(TStr))
          IN IF r2.err # "none" THEN [err |-> "errUnmarshalBuildOpts", v |-> b1]
             ELSE [err |-> "none", v |-> [b1 EXCEPT !["BuildString"] = r2.v]]

\* ExecuteCommandConfig.IsEmpty
ExecuteCommandConfig_IsEmpty(e) == e["Enable"] = NIL

\* (*ExecuteCommand).UnmarshalYAML
ExecuteCommand_UnmarshalYAML(e, n) ==
  LET r1 == unmarshal(n, e["Config"], ExecuteCommandConfigT)
      e1 == [e EXCEPT !["Config"] = r1.v]
  IN IF r1.err = "other" THEN [err |-> "other", v |-> e1]
     ELSE IF ~ExecuteCommandConfig_IsEmpty(e1["Config"]) THEN [err |-> "none", v |-> e1]
     ELSE LET r2 == unmarshal(n, e1["Enable"], TPtr(TBool))
          IN IF r2.err # "none" THEN [err |-> "errUnmarshalExec", v |-> e1]
             ELSE [err |-> "none", v |-> [e1 EXCEPT !["Enable"] = r2.v]]

(***************************************************************************)
(* The default manifests.  newDefault lays the value out in cells of its   *)
(* own: every aws.Int, aws.Bool, aws.String and & of the constructor       *)
(* allocates.                                                              *)
(***************************************************************************)
\* number of default manifests built one after the other
MaxDefaults == 2

\* a constructor that hands out one package-level default value
newDefaultShared(kd, own) ==
  [ref |-> StoreRef(newDefaultService(kd), ServiceT(kd), <<"default">>),
   cells |-> StoreCells(newDefaultService(kd), ServiceT(kd), <<"default">>)]

\* newDefaultBackendService, newDefaultWorkerService: the manifest and the
\* cells allocated for it, own naming the call
newDefault(kd, own) ==
  [ref |-> StoreRef(newDefaultService(kd), ServiceT(kd), <<own>>),
   cells |-> StoreCells(newDefaultService(kd), ServiceT(kd), <<own>>)]

RECURSIVE Cells(_, _, _)
\* every cell reachable from v: what pointers point to, maps and slices
Cells(h, v, t) ==
  CASE t.k \in {"int", "string", "bool"} -> {}
    [] t.k = "struct" -> UNION {Cells(h, v[f], t.types[f]) : f \in DOMAIN t.types}
    [] t.k = "slice" -> IF v = NIL THEN {} ELSE {v}
    [] t.k = "ptr" -> IF v = NIL THEN {} ELSE {v} \cup Cells(h, h[v], t.elem)
    [] t.k = "map" ->
         IF v = NIL THEN {}
         ELSE {v} \cup UNION {Cells(h, h[v][key], t.elem) : key \in DOMAIN h[v]}

(***************************************************************************)
(* The inputs of the functions.                                            *)
(***************************************************************************)
\* the images BuildRequired is asked about
SourceImages ==
  { [Build |-> [BuildString |-> bs,
                BuildArgs |-> [Context |-> ctx, Dockerfile |-> df, Args |-> args,
                               Target |-> tg, CacheFrom |-> cf]],
     Location |-> loc, DockerLabels |-> <<>>, DependsOn |-> <<>>] :
      bs \in PtrTo({<<>>, <<"d", "f">>}), df \in PtrTo({<<>>, <<"d", "f">>}),
      ctx \in PtrTo({<<"c">>}), args \in PtrTo({EmptyMap, [a \in {"k"} |-> "v"]}),
      tg \in PtrTo({<<"t">>}), cf \in PtrTo({<<>>}),
      loc \in PtrTo({<<>>, <<"i", "m", "g">>}) }

\* dockerfile and context paths
Paths == StringsUpTo({"a", "/", "."}, MaxPathLen)

\* the workspace roots
Roots == {<<"/", "w">>, <<"w">>}

\* the images BuildConfig is asked about: the dockerfile given in the build
\* arguments, as the build string, or not at all
BuildImages ==
  { [Build |-> [BuildString |-> bs,
                BuildArgs |-> [Context |-> ctx, Dockerfile |-> df, Args |-> rest.args,
                               Target |-> rest.target, CacheFrom |-> rest.cacheFrom]],
     Location |-> <<>>, DockerLabels |-> <<>>, DependsOn |-> <<>>] :
      bs \in PtrTo({<<"b", "/", "D">>}), df \in PtrTo(Paths), ctx \in PtrTo(Paths),
      rest \in {[args |-> <<>>, target |-> <<>>, cacheFrom |-> <<>>],
                [args |-> <<[a \in {"k"} |-> "v"]>>, target |-> <<<<"t">>>>,
                 cacheFrom |-> <<<<<<"i">>>>>>]} }

\* the health checks apply and applyIfNotSet are called with: every field
\* unset or set, the command also to an empty slice
HealthChecks(cmd, interval, retries, timeout) ==
  { HealthCheckOf(c, i, r, t, sp) :
      c \in {<<>>, <<<<>>>>, <<<<"CMD", cmd>>>>}, i \in PtrTo({interval}),
      r \in PtrTo({retries}), t \in PtrTo({timeout}), sp \in PtrTo({0}) }

\* port mappings
PortMappings == PtrTo(StringsUpTo({"8", "/", "u"}, MaxPortLen))

\* a mapping entry: a value of the field's type, or one of another type
Entry(val) == {[good |-> TRUE, val |-> val], [good |-> FALSE, val |-> <<>>]}

\* the mappings with the entries es, or with a broken merge key
MappingNodes(es) ==
  {[kind |-> "mapping", entries |-> e, badMerge |-> FALSE] : e \in es}
    \cup {[kind |-> "mapping", entries |-> [x \in {} |-> <<>>], badMerge |-> TRUE]}

\* the functions from a subset of keys to an entry of the key
RECURSIVE EntriesOver(_, _)
EntriesOver(keys, entryOf) ==
  IF keys = <<>> THEN {[x \in {} |-> <<>>]}
  ELSE LET rest == EntriesOver(Tail(keys), entryOf)
           k == Head(keys)
       IN rest \cup {[x \in (DOMAIN r) \cup {k} |-> IF x = k THEN e ELSE r[x]] :
                       r \in rest, e \in entryOf[k]}

ScalarNodes ==
  {[kind |-> "scalar", tag |-> "str", val |-> v] : v \in {<<>>, <<"d", "f">>}}
    \cup {[kind |-> "scalar", tag |-> "bool", val |-> v] :
            v \in {TrueText, <<"f", "a", "l", "s", "e">>}}
    \cup {[kind |-> "scalar", tag |-> "int", val |-> <<"3">>]}

SequenceNodes == {[kind |-> "sequence"]}

\* the nodes given for the build field
BuildNodes ==
  ScalarNodes \cup SequenceNodes
    \cup MappingNodes(EntriesOver(<<"Dockerfile", "Context", "Args", "other">>,
                                  [Dockerfile |-> Entry(<<<<"d", "f">>>>),
                                   Context |-> Entry(<<<<"c">>>>),
                                   Args |-> Entry(<<[a \in {"k"} |-> "v"]>>),
                                   other |-> Entry(<<>>)]))

\* the nodes given for the execute-command field
ExecNodes ==
  ScalarNodes \cup SequenceNodes
    \cup MappingNodes(EntriesOver(<<"Enable", "other">>,
                                  [Enable |-> Entry(<<TRUE>>) \cup Entry(<<FALSE>>),
                                   other |-> Entry(<<>>)]))

\* the build field before decoding: zero, or with a build string put there
BuildTargets ==
  {[BuildString |-> bs, BuildArgs |-> Zero(DockerBuildArgsT)] : bs \in PtrTo({<<"o", "l", "d">>})}

\* the execute-command field before decoding: zero, or with the default
\* Enable of newDefaultBackendService, or enabled
ExecTargets ==
  {[Enable |-> en, Config |-> [Enable |-> <<>>]] : en \in PtrTo({FALSE, TRUE})}

(***************************************************************************)
(* One application of a function to one input; the default manifests are   *)
(* built one after the other.                                              *)
(***************************************************************************)
\* the variables of the environment resolution, which no function here uses
Unresolved ==
  /\ kind = "backend"
  /\ base = <<>>
  /\ heap0 = EmptyHeap
  /\ heap = EmptyHeap
  /\ results = <<>>
  /\ thr = [t \in Threads |-> Idle]

InitFn == Unresolved /\ op = NoOp

CallBuildRequired ==
  /\ op = NoOp
  /\ \E kd \in Kinds, image \in SourceImages :
       op' = [fn |-> "BuildRequired", kd |-> kd, image |-> image,
              out |-> BuildRequired(kd, With(newDefaultConfig(kd), ImagePath(kd), image))]
  /\ UNCHANGED <<kind, base, heap0, heap, results, thr>>

CallBuildConfig ==
  /\ op = NoOp
  /\ \E image \in BuildImages, rootDirectory \in Roots :
       op' = [fn |-> "BuildConfig", image |-> image, rootDirectory |-> rootDirectory,
              out |-> BuildConfig(image, rootDirectory)]
  /\ UNCHANGED <<kind, base, heap0, heap, results, thr>>

\* the heap with the receiver hc and the argument other of apply
HealthCheckHeap(hc, other) == Put(Put(EmptyHeap, <<"hc">>, hc), <<"other">>, other)

CallApply ==
  /\ op = NoOp
  /\ \E hc \in HealthChecks("true", 10, 2, 5), other \in HealthChecks("false", 30, 5, 10) :
       op' = [fn |-> "apply", pre |-> HealthCheckHeap(hc, other),
              post |-> apply(HealthCheckHeap(hc, other), <<"hc">>, <<"other">>)]
  /\ UNCHANGED <<kind, base, heap0, heap, results, thr>>

CallApplyIfNotSet ==
  /\ op = NoOp
  /\ \E hc \in HealthChecks("true", 10, 2, 5), other \in HealthChecks("false", 30, 5, 10) :
       op' = [fn |-> "applyIfNotSet", pre |-> HealthCheckHeap(hc, other),
              post |-> applyIfNotSet(HealthCheckHeap(hc, other), <<"hc">>, <<"other">>)]
  /\ UNCHANGED <<kind, base, heap0, heap, results, thr>>

CallParsePortMapping ==
  /\ op = NoOp
  /\ \E s \in PortMappings :
       op' = [fn |-> "parsePortMapping", s |-> s, out |-> parsePortMapping(s)]
  /\ UNCHANGED <<kind, base, heap0, heap, results, thr>>

CallUnmarshalBuild ==
  /\ op = NoOp
  /\ \E b \in BuildTargets, n \in BuildNodes :
       op' = [fn |-> "UnmarshalBuild", target |-> b, node |-> n,
              out |-> BuildArgsOrString_UnmarshalYAML(b, n)]
  /\ UNCHANGED <<kind, base, heap0, heap, results, thr>>

CallUnmarshalExec ==
  /\ op = NoOp
  /\ \E e \in ExecTargets, n \in ExecNodes :
       op' = [fn |-> "UnmarshalExec", target |-> e, node |-> n,
              out |-> ExecuteCommand_UnmarshalYAML(e, n)]
  /\ UNCHANGED <<kind, base, heap0, heap, results, thr>>

\* the defaults built so far: the kind and the manifest of each, and the
\* cells of all
NoDefaults == [fn |-> "newDefault", built |-> <<>>, h |-> EmptyHeap]

CallNewDefault ==
  /\ op = NoOp \/ op.fn = "newDefault"
  /\ LET sofar == IF op = NoOp THEN NoDefaults ELSE op
     IN /\ Len(sofar.built) < MaxDefaults
        /\ \E kd \in Kinds :
             LET d == newDefault(kd, OwnerNames[Len(sofar.built) + 1])
             IN op' = [fn |-> "newDefault",
                       built |-> Append(sofar.built, [kd |-> kd, ref |-> d.ref]),
                       h |-> Join(d.cells, sofar.h)]
  /\ UNCHANGED <<kind, base, heap0, heap, results, thr>>

(***************************************************************************)
(* UnmarshalWorkload.  A document is what the YAML decoder makes of it:    *)
(* whether it decodes into a Workload at all, the type it declares (unset  *)
(* when it declares none), whether it decodes into the manifest of that    *)
(* type, and the health check it gives for the image.                      *)
(***************************************************************************)
\* the workload types, by the names of their constants
WorkloadTypes ==
  {"LoadBalancedWebServiceType", "BackendServiceType", "ScheduledJobType", "WorkerServiceType"}

\* UnmarshalWorkload that leaves the health check as the document gives it
UnmarshalWorkloadNoDefaults(doc) ==
  IF ~doc.yaml THEN [m |-> NIL, err |-> "unmarshal to workload manifest"]
  ELSE IF StringValue(doc.type) \notin WorkloadTypes \ {"WorkerServiceType"}
  THEN [m |-> NIL, err |-> "ErrInvalidWorkloadType"]
  ELSE IF ~doc.fits THEN [m |-> NIL, err |-> "unmarshal"]
  ELSE [m |-> <<[type |-> StringValue(doc.type), HealthCheck |-> doc.healthcheck]>>,
        err |-> "none"]

\* UnmarshalWorkload: the manifest returned, by its type and the health
\* check of its image, and the error
UnmarshalWorkload(doc) ==
  IF ~doc.yaml THEN [m |-> NIL, err |-> "unmarshal to workload manifest"]
  ELSE LET typeVal == StringValue(doc.type)
       IN CASE typeVal = "LoadBalancedWebServiceType" ->
                 IF ~doc.fits THEN [m |-> NIL, err |-> "unmarshal"]
                 ELSE [m |-> <<[type |-> typeVal, HealthCheck |-> doc.healthcheck]>>,
                       err |-> "none"]
            [] typeVal = "BackendServiceType" ->
                 IF ~doc.fits THEN [m |-> NIL, err |-> "unmarshal"]
                 ELSE IF doc.healthcheck # NIL
                 THEN LET h == HealthCheckHeap(doc.healthcheck[1], newDefaultContainerHealthCheck)
                      IN [m |-> <<[type |-> typeVal,
                                   HealthCheck |-> <<applyIfNotSet(h, <<"hc">>, <<"other">>)[<<"hc">>]>>]>>,
                          err |-> "none"]
                 ELSE [m |-> <<[type |-> typeVal, HealthCheck |-> NIL]>>, err |-> "none"]
            [] typeVal = "ScheduledJobType" ->
                 IF ~doc.fits THEN [m |-> NIL, err |-> "unmarshal"]
                 ELSE [m |-> <<[type |-> typeVal, HealthCheck |-> doc.healthcheck]>>,
                       err |-> "none"]
            [] OTHER -> [m |-> NIL, err |-> "ErrInvalidWorkloadType"]

\* UnmarshalWorkload on a document: broken YAML or not, a type of the four,
\* another or none, a body that fits the manifest of the type or not, a
\* health check or none
CallUnmarshalWorkload ==
  /\ op = NoOp
  /\ \E y \in BOOLEAN, f \in BOOLEAN, t \in PtrTo(WorkloadTypes \cup {"", "Lambda"}),
        hc \in PtrTo(HealthChecks("false", 30, 5, 10)) :
       LET doc == [yaml |-> y, type |-> t, fits |-> f, healthcheck |-> hc]
       IN op' = [fn |-> "UnmarshalWorkload", doc |-> doc, out |-> UnmarshalWorkload(doc)]
  /\ UNCHANGED <<kind, base, heap0, heap, results, thr>>

(***************************************************************************)
(* The CloudFormation stack of a backend service (package stack).          *)
(* addon.New, mergo.Merge and wkld.Parameters are calls into other         *)
(* packages that return an error or none: both outcomes are inputs.        *)
(***************************************************************************)
\* ApplyEnv that returns the manifest together with the error of the merge
ApplyEnvPartial(h, s, envName, kd, own, mergeErr) ==
  LET r == ApplyEnv(h, s, envName, kd, own)
      l == lookupEnv(h, s, envName)
  IN [h |-> r.h, ret |-> <<r.ret>>, err |-> l.ok /\ l.overrideConfig # NIL /\ mergeErr]

\* ApplyEnv, mergo.Merge returning an error when mergeErr: "if err != nil
\* { return nil, err }"; the returned pointer is <<>> for nil
ApplyEnvMerge(h, s, envName, kd, own, mergeErr) ==
  LET l == lookupEnv(h, s, envName)
  IN IF l.ok /\ l.overrideConfig # NIL /\ mergeErr
     THEN [h |-> h, ret |-> NIL, err |-> TRUE]
     ELSE LET r == ApplyEnv(h, s, envName, kd, own)
          IN [h |-> r.h, ret |-> <<r.ret>>, err |-> r.err]

\* stack.NewBackendService: the stack with the resolved manifest, or the
\* error; envManifest is what ApplyEnv returned, when it was called
stack_NewBackendService(h, mft, env, addonsErr, mergeErr) ==
  IF addonsErr
  THEN [stack |-> NIL, err |-> "new addons", called |-> FALSE, h |-> h]
  ELSE LET r == ApplyEnvMerge(h, mft, env, "backend", "c1", mergeErr)
       IN IF r.err
          THEN [stack |-> NIL, err |-> "apply environment override", called |-> TRUE,
                envManifest |-> r.ret, h |-> r.h]
          ELSE [stack |-> <<[env |-> env, manifest |-> r.ret[1]]>>, err |-> "none",
                called |-> TRUE, envManifest |-> r.ret, h |-> r.h]

PortPath == <<"ImageConfig", "ServiceImageWithPort", "Port">>

\* the stack is made of a manifest that was read, or of the one
\* stack.NewBackendService on a manifest whose image port and cpu are
\* given by the base, by the overlay of "test" or by neither, or on the
\* manifest manifest.NewBackendService just created
CallStackNewBackendService ==
  /\ \/ /\ op = NoOp
        /\ \E p \in PtrTo({80, 8080}), tp \in PtrTo({0, 65535}), tc \in PtrTo({512}),
              sh \in ProdShapes, env \in EnvNames, addonsErr \in BOOLEAN, mergeErr \in BOOLEAN :
             \E sc \in {[b |-> With(With(DefaultConfig("backend"), PortPath, p),
                                    <<"TaskConfig", "CPU">>, <<256>>),
                          test |-> With(With(Zero(ConfigT("backend")), PortPath, tp),
                                       <<"TaskConfig", "CPU">>, tc),
                          prod |-> Zero(ConfigT("backend")), shape |-> sh]} :
             \E h \in {StoreCells(ServiceOf("backend", sc), ServiceT("backend"), <<"base">>)} :
             LET mft == StoreRef(ServiceOf("backend", sc), ServiceT("backend"), <<"base">>)
             IN op' = [fn |-> "stack.NewBackendService", mft |-> mft, pre |-> h, env |-> env,
                       mergeErr |-> mergeErr, addonsErr |-> addonsErr, created |-> NIL,
                       out |-> stack_NewBackendService(h, mft, env, addonsErr, mergeErr)]
     \/ /\ op.fn = "NewBackendService"
        /\ \E env \in EnvNames, addonsErr \in BOOLEAN :
             \E h \in {StoreCells(op.out, ServiceT("backend"), <<"base">>)} :
             LET mft == StoreRef(op.out, ServiceT("backend"), <<"base">>)
             IN op' = [fn |-> "stack.NewBackendService", mft |-> mft, pre |-> h, env |-> env,
                       mergeErr |-> FALSE, addonsErr |-> addonsErr, created |-> <<op.props>>,
                       out |-> stack_NewBackendService(h, mft, env, addonsErr, FALSE)]
  /\ UNCHANGED <<kind, base, heap0, heap, results, thr>>

DigitChars == <<"0", "1", "2", "3", "4", "5", "6", "7", "8", "9">>

\* strconv.FormatUint(n, 10)
RECURSIVE FormatUint(_)
FormatUint(n) ==
  IF n < 10 THEN <<DigitChars[n + 1]>>
  ELSE Append(FormatUint(n \div 10), DigitChars[(n % 10) + 1])

NoExposedContainerPort == <<"-", "1">>

\* Parameters that gives the port of a manifest without port as 0
ParametersZeroPort(h, s, svcParams, wkldErr) ==
  IF wkldErr THEN [params |-> NIL, err |-> TRUE]
  ELSE LET port == At(s.manifest["Config"], PortPath)
       IN [params |-> <<svcParams \o
                          <<[ParameterKey |-> "ContainerPort",
                             ParameterValue |-> FormatUint(IF port # NIL THEN h[port] ELSE 0)]>>>>,
           err |-> FALSE]

\* (*BackendService).Parameters of the stack s; svcParams and wkldErr are
\* what s.wkld.Parameters() returns
Parameters(h, s, svcParams, wkldErr) ==
  IF wkldErr THEN [params |-> NIL, err |-> TRUE]
  ELSE LET port == At(s.manifest["Config"], PortPath)
           containerPort == IF port # NIL THEN FormatUint(h[port]) ELSE NoExposedContainerPort
       IN [params |-> <<svcParams \o
                          <<[ParameterKey |-> "ContainerPort", ParameterValue |-> containerPort]>>>>,
           err |-> FALSE]

CallParameters ==
  /\ op.fn = "stack.NewBackendService" /\ op.out.stack # NIL
  /\ \E svcParams \in
          {<<>>, <<[ParameterKey |-> "WorkloadName", ParameterValue |-> <<"s", "v", "c">>],
                   [ParameterKey |-> "TaskCount", ParameterValue |-> <<"1">>]>>},
        wkldErr \in BOOLEAN :
       op' = [fn |-> "Parameters", created |-> op.created, svcParams |-> svcParams,
              wkldErr |-> wkldErr,
              port |-> ValueOf(op.out.h, op.out.stack[1].manifest, ServiceT("backend"))
                         ["Config"]["ImageConfig"]["ServiceImageWithPort"]["Port"],
              out |-> Parameters(op.out.h, op.out.stack[1], svcParams, wkldErr)]
  /\ UNCHANGED <<kind, base, heap0, heap, results, thr>>

(***************************************************************************)
(* manifest.NewBackendService.  The strings of the props are not taken     *)
(* apart and are plain strings.                                            *)
(***************************************************************************)
stringP(s) == IF s = "" THEN NIL ELSE <<s>>

uint16P(n) == IF n = 0 THEN NIL ELSE <<n>>

\* NewBackendService, as a plain value
NewBackendService(props) ==
  LET svc == newDefaultService("backend")
      healthCheck ==
        IF props.HealthCheck # NIL
        THEN <<apply(HealthCheckHeap(newDefaultContainerHealthCheck, props.HealthCheck[1]),
                     <<"hc">>, <<"other">>)[<<"hc">>]>>
        ELSE NIL
      image == ImagePath("backend")
      a == [svc EXCEPT !["Workload"]["Name"] = <<props.Name>>]
      b == With(a["Config"], image \o <<"Location">>, stringP(props.Image))
      c == With(b, image \o <<"Build", "BuildArgs", "Dockerfile">>, stringP(props.Dockerfile))
      d == With(c, PortPath, uint16P(props.Port))
      e == With(d, <<"ImageConfig", "HealthCheck">>, healthCheck)
  IN [a EXCEPT !["Config"] = e]

CallNewBackendService ==
  /\ op = NoOp
  /\ \E df \in {"", "Dockerfile"}, img \in {"", "img"}, port \in {0, 80, 65535},
        hc \in PtrTo(HealthChecks("false", 30, 5, 10)) :
       LET props == [Name |-> "svc", Dockerfile |-> df, Image |-> img, Port |-> port,
                     HealthCheck |-> hc]
       IN op' = [fn |-> "NewBackendService", props |-> props, out |-> NewBackendService(props)]
  /\ UNCHANGED <<kind, base, heap0, heap, results, thr>>

(***************************************************************************)
(* BackendService.ApplyEnv and WorkerService.ApplyEnv on manifests that    *)
(* agree on the fields both kinds have.                                    *)
(***************************************************************************)
\* the fields of a config both kinds have
SharedOf(kd, cfg) ==
  [Image |-> At(cfg, ImagePath(kd)), TaskConfig |-> cfg["TaskConfig"],
   Logging |-> cfg["Logging"], Sidecars |-> cfg["Sidecars"]]

\* the worker scenario with the shared fields of the backend scenario sc
WorkerScenario(sc) ==
  LET WorkerWith(cfg, shared) ==
        [With(cfg, ImagePath("worker"), shared["Image"])
           EXCEPT !["TaskConfig"] = shared["TaskConfig"], !["Logging"] = shared["Logging"],
                  !["Sidecars"] = shared["Sidecars"]]
  IN [b |-> WorkerWith(DefaultConfig("worker"), SharedOf("backend", sc.b)),
      test |-> WorkerWith(Zero(ConfigT("worker")), SharedOf("backend", sc.test)),
      prod |-> WorkerWith(Zero(ConfigT("worker")), SharedOf("backend", sc.prod)),
      shape |-> sc.shape]

\* the shared fields of the manifest ApplyEnv(envName) returns for the
\* service of kind kd and scenario sc
Resolved(kd, h, sc, envName) ==
  LET s == StoreRef(ServiceOf(kd, sc), ServiceT(kd), <<"base">>)
      r == ApplyEnv(h, s, envName, kd, "c1")
  IN SharedOf(kd, ValueOf(r.h, r.ret, ServiceT(kd))["Config"])

CallApplyEnvBothKinds ==
  /\ op = NoOp
  /\ \E g \in 1..(Len(Groups("backend")) - 2), envName \in {"test", "prod"} :
       \E sc \in ScenariosOf("backend", g) :
         \E hb \in {StoreCells(ServiceOf("backend", sc), ServiceT("backend"), <<"base">>)},
            hw \in {StoreCells(ServiceOf("worker", WorkerScenario(sc)), ServiceT("worker"),
                               <<"base">>)} :
           op' = [fn |-> "ApplyEnv", sc |-> sc, env |-> envName,
                  backend |-> Resolved("backend", hb, sc, envName),
                  worker |-> Resolved("worker", hw, WorkerScenario(sc), envName)]
  /\ UNCHANGED <<kind, base, heap0, heap, results, thr>>

(***************************************************************************)
(* The service init command: Validate, Ask, Execute on the options o.      *)
(* What the validators, the file system, the Docker engine, the prompts    *)
(* and the Dockerfile parser answer is outside the package: their answers  *)
(* are inputs.  prompted lists the prompts Ask showed, in their order.     *)
(***************************************************************************)
\* Validate that lets a Dockerfile and an image through together
ValidateLenient(o) ==
  IF o.appName = "" THEN "errNoAppInWorkspace"
  ELSE IF o.wkldType \notin {"", "BackendServiceType", "LoadBalancedWebServiceType"}
  THEN "invalid service type"
  ELSE IF o.name = "bad name" THEN "invalid service name"
  ELSE IF o.dockerfilePath = "gone" THEN "stat"
  ELSE "none"

\* (*initSvcOpts).Validate: the error, "none" for nil
Validate(o) ==
  IF o.appName = "" THEN "errNoAppInWorkspace"
  ELSE IF o.wkldType # "" /\ o.wkldType \notin {"BackendServiceType", "LoadBalancedWebServiceType"}
  THEN "invalid service type"
  ELSE IF o.name # "" /\ o.name = "bad name" THEN "invalid service name"
  ELSE IF o.dockerfilePath # "" /\ o.image # "" THEN "cannot be specified together"
  ELSE IF o.dockerfilePath # "" /\ o.dockerfilePath = "gone" THEN "stat"
  ELSE "none"

\* strconv.ParseUint(s, 10, 16)
ParseUint(s) ==
  LET RECURSIVE ParseDigits(_)
      \* the number a string of decimal digits writes
      ParseDigits(t) ==
        IF t = <<>> THEN 0
        ELSE 10 * ParseDigits(SubSeq(t, 1, Len(t) - 1))
             + (CHOOSE d \in 0..9 : DigitChars[d + 1] = t[Len(t)])
  IN IF s = <<>> \/ \E i \in 1..Len(s) : \A d \in 1..10 : DigitChars[d] # s[i]
     THEN [n |-> 0, err |-> TRUE]
     ELSE IF ParseDigits(s) >= 65536 THEN [n |-> 65535, err |-> TRUE]
     ELSE [n |-> ParseDigits(s), err |-> FALSE]

\* (*initSvcOpts).Ask with askSvcType, askSvcName, askDockerfile, askImage
\* and askSvcPort: the options afterwards, the error, the prompts shown
Ask(o, a) ==
  LET r(opts, err, prompted) == [o |-> opts, err |-> err, prompted |-> prompted]
      askSvcType(s) ==
        IF s.o.wkldType # "" THEN s
        ELSE IF a.type = NIL THEN r(s.o, "select service type", Append(s.prompted, "type"))
        ELSE r([s.o EXCEPT !.wkldType = a.type[1]], "none", Append(s.prompted, "type"))
      askSvcName(s) ==
        IF s.o.name # "" THEN s
        ELSE IF a.name = NIL THEN r(s.o, "get service name", Append(s.prompted, "name"))
        ELSE r([s.o EXCEPT !.name = a.name[1]], "none", Append(s.prompted, "name"))
      \* s with isDfSelected
      askDockerfile(s) ==
        IF s.o.dockerfilePath # "" \/ s.o.image # "" THEN [s |-> s, isDfSelected |-> TRUE]
        ELSE IF a.docker \in {"ErrDockerCommandNotFound", "ErrDockerDaemonNotResponsive"}
        THEN [s |-> s, isDfSelected |-> FALSE]
        ELSE IF a.docker = "error"
        THEN [s |-> r(s.o, "check if docker engine is running", s.prompted),
              isDfSelected |-> FALSE]
        ELSE IF a.dockerfile = NIL
        THEN [s |-> r(s.o, "select Dockerfile", Append(s.prompted, "dockerfile")),
              isDfSelected |-> FALSE]
        ELSE IF a.dockerfile[1] = "use image"
        THEN [s |-> r(s.o, "none", Append(s.prompted, "dockerfile")), isDfSelected |-> FALSE]
        ELSE [s |-> r([s.o EXCEPT !.dockerfilePath = a.dockerfile[1]], "none",
                      Append(s.prompted, "dockerfile")),
              isDfSelected |-> TRUE]
      askImage(s) ==
        IF s.o.image # "" THEN s
        ELSE IF a.image = NIL THEN r(s.o, "get image location", Append(s.prompted, "image"))
        ELSE r([s.o EXCEPT !.image = a.image[1]], "none", Append(s.prompted, "image"))
      askSvcPort(s) ==
        IF s.o.port # 0 THEN s
        ELSE LET ports == IF s.o.dockerfilePath # "" /\ s.o.image = "" THEN a.ports ELSE <<>>
             IN IF s.o.dockerfilePath # "" /\ Len(ports) = 1
                THEN r([s.o EXCEPT !.port = ports[1]], "none", s.prompted)
                ELSE IF s.o.wkldType = "BackendServiceType" THEN s
                ELSE IF a.port = NIL THEN r(s.o, "get port", Append(s.prompted, "port"))
                ELSE IF ParseUint(a.port[1]).err
                THEN r(s.o, "parse port string", Append(s.prompted, "port"))
                ELSE r([s.o EXCEPT !.port = ParseUint(a.port[1]).n], "none",
                       Append(s.prompted, "port"))
      s1 == askSvcType(r(o, "none", <<>>))
      s2 == IF s1.err # "none" THEN s1 ELSE askSvcName(s1)
      d3 == IF s2.err # "none" THEN [s |-> s2, isDfSelected |-> FALSE] ELSE askDockerfile(s2)
      s4 == IF d3.s.err # "none" \/ d3.isDfSelected THEN d3.s ELSE askImage(d3.s)
  IN IF s4.err # "none" THEN s4 ELSE askSvcPort(s4)

\* the flags are given (each unset, valid or invalid; the Dockerfile "gone"
\* does not exist) and Validate runs
CallValidate ==
  /\ op = NoOp
  /\ \E o \in [appName : {"", "app"},
                wkldType : {"", "BackendServiceType", "LoadBalancedWebServiceType", "job"},
                name : {"", "svc", "bad name"}, dockerfilePath : {"", "Dockerfile", "gone"},
                image : {"", "img"}, port : {0, 80}] :
       op' = [fn |-> "init", pc |-> "validated", flags |-> o, o |-> o, err |-> Validate(o),
              prompted |-> <<>>, docker |-> "running", dockerfile |-> NIL]
  /\ UNCHANGED <<kind, base, heap0, heap, results, thr>>

\* Ask runs when Validate returned no error.  a is what the outside answers:
\* the prompts (an answer, or <<>> for an error), the Docker engine, the
\* Dockerfile chosen ("use image" for DockerfilePromptUseImage), the ports
\* the Dockerfile exposes
CallAsk ==
  /\ op.fn = "init" /\ op.pc = "validated" /\ op.err = "none"
  /\ \E a \in [type : PtrTo({"BackendServiceType", "LoadBalancedWebServiceType"}),
                name : PtrTo({"asked-svc"}), image : PtrTo({"", "asked-img"}),
                docker : {"running", "ErrDockerCommandNotFound",
                          "ErrDockerDaemonNotResponsive", "error"},
                dockerfile : PtrTo({"asked/Dockerfile", "use image"}),
                ports : {<<>>, <<8080>>, <<8080, 9090>>},
                port : PtrTo({<<"8", "0">>, <<"8", "x">>})] :
       LET s == Ask(op.o, a)
       IN op' = [op EXCEPT !.pc = "asked", !.o = s.o, !.err = s.err, !.prompted = s.prompted,
                           !.docker = a.docker, !.dockerfile = a.dockerfile]
  /\ UNCHANGED <<kind, base, heap0, heap, results, thr>>

\* Execute runs when Ask returned no error: parseHealthCheck and
\* o.init.Service, which fail or not
CallExecute ==
  /\ op.fn = "init" /\ op.pc = "asked" /\ op.err = "none"
  /\ \E hcErr \in BOOLEAN, initErr \in BOOLEAN :
       op' = [op EXCEPT !.pc = "executed",
                        !.err = IF op.o.dockerfilePath # "" /\ op.o.wkldType = "BackendServiceType"
                                   /\ hcErr
                                THEN "get healthcheck from Dockerfile"
                                ELSE IF initErr THEN "init service" ELSE "none"]
  /\ UNCHANGED <<kind, base, heap0, heap, results, thr>>

NextFn ==
  \/ CallBuildRequired
  \/ CallBuildConfig
  \/ CallApply
  \/ CallApplyIfNotSet
  \/ CallParsePortMapping
  \/ CallUnmarshalBuild
  \/ CallUnmarshalExec
  \/ CallNewDefault
  \/ CallExecute
  \/ CallAsk
  \/ CallValidate
  \/ CallApplyEnvBothKinds
  \/ CallNewBackendService
  \/ CallStackNewBackendService
  \/ CallParameters
  \/ CallUnmarshalWorkload

SpecFn == InitFn /\ [][NextFn]_vars

(***************************************************************************)
(* The custom-domain handler, a Lambda-backed custom resource.  op is the  *)
(* invocation: the request type, where the handler's outer function is     *)
(* (main), the state of Promise.race, the error it rejected with, where    *)
(* the inner handler function is (h), the two promises of Promise.all in   *)
(* addCustomDomain (cname, cert), the loop of                              *)
(* waitForCustomDomainToBeActive (wait) and the reports sent.  An error is *)
(* its name and its message, a message the sequence of its parts.  What    *)
(* the AWS calls and the PUT of a report answer is an input; time is not   *)
(* modelled, the deadline can expire at any moment.  A promise nobody      *)
(* awaits any more keeps running until the invocation ends.                *)
(***************************************************************************)
ATTEMPTS_WAIT_FOR_PENDING == 10

ATTEMPTS_WAIT_FOR_ACTIVE == 12

\* the pages of describeCustomDomains that one getDomainInfo reads before
\* the last one
MaxPages == 2

\* what an AWS call rejects with; props.CustomDomain is example.com
AwsErrors ==
  {[name |-> "InvalidRequestException",
    message |-> <<"example.com", " is already associated with", " svc">>],
   [name |-> "InvalidRequestException", message |-> <<"invalid request">>],
   [name |-> "ThrottlingException",
    message |-> <<"example.com", " is already associated with", " svc">>]}

\* new Error(prefix + err.message)
Wrapped(prefix, err) == [name |-> "Error", message |-> <<prefix>> \o err.message]

\* message.includes(`${customDomain} is already associated with`)
IncludesAlreadyAssociated(message) ==
  \E k \in 1..(Len(message) - 1) :
    message[k] = "example.com" /\ message[k + 1] = " is already associated with"

\* exports.handler is called with a request
InitDomain ==
  /\ Unresolved
  /\ \E t \in {"Create", "Update", "Delete", "Replace"} :
       op = [fn |-> "handler", RequestType |-> t, main |-> "start", race |-> "pending",
             err |-> NIL, h |-> "idle", cname |-> "idle",
             cert |-> [st |-> "idle", i |-> 0, attempts |-> 0, pages |-> 0,
                       lastDomainStatus |-> "", upserts |-> 0],
             wait |-> [st |-> "idle", i |-> 0, calls |-> 0, seen |-> ""],
             reports |-> <<>>]

\* a promise of the handler function rejects with e.  all: it is one of
\* the two of Promise.all, which rejects with the first such error only.
\* Promise.race rejects with the handler's error unless it has settled.
HandlerRejects(o, e, all) ==
  IF all /\ o.h # "all" THEN o
  ELSE IF o.race = "pending"
  THEN [o EXCEPT !.h = "err", !.race = "rejected", !.err = <<e>>, !.main = "catch"]
  ELSE [o EXCEPT !.h = "err"]

\* Promise.all resolves once both promises have: the handler goes on to
\* waitForCustomDomainToBeActive
AllResolves(o) ==
  IF o.h = "all" /\ o.cname = "ok" /\ o.cert.st = "ok"
  THEN [o EXCEPT !.h = "wait", !.wait.st = "loop"]
  ELSE o

\* Promise.race([exports.deadlineExpired(), handler()]): the handler runs
\* to its first await
Invoke ==
  /\ op.fn = "handler" /\ op.main = "start"
  /\ op' = IF op.RequestType = "Create"
           THEN [op EXCEPT !.main = "race", !.h = "associate"]
           ELSE IF op.RequestType \in {"Update", "Delete"}
           THEN HandlerRejects(op, [name |-> "Error", message |-> <<"not yet implemented">>],
                               FALSE)
           ELSE HandlerRejects(op, [name |-> "Error",
                                    message |-> <<"Unsupported request type ", op.RequestType>>],
                               FALSE)
  /\ UNCHANGED <<kind, base, heap0, heap, results, thr>>

\* the timer of deadlineExpired fires before the handler has settled
DeadlineExpired ==
  /\ op.fn = "handler" /\ op.main \notin {"start", "returned", "threw"}
  /\ op.race = "pending"
  /\ op' = [op EXCEPT !.race = "rejected", !.main = "catch",
                      !.err = <<[name |-> "Error",
                                 message |-> <<"Lambda took longer than 14.5 minutes",
                                               " to update environment">>]>>]
  /\ UNCHANGED <<kind, base, heap0, heap, results, thr>>

\* addCustomDomain: associateCustomDomain answers; on success the two
\* promises of Promise.all start
AssociateCustomDomain ==
  /\ op.fn = "handler" /\ op.main \notin {"start", "returned", "threw"}
  /\ op.h = "associate"
  /\ \/ op' = [op EXCEPT !.h = "all", !.cname = "change", !.cert.st = "loop"]
     \/ \E e \in AwsErrors : op' = HandlerRejects(op, e, FALSE)
  /\ UNCHANGED <<kind, base, heap0, heap, results, thr>>

\* updateCNAMERecordAndWait for the domain: changeResourceRecordSets, then
\* waitFor('resourceRecordSetsChanged')
UpdateCNAMERecordAndWait ==
  /\ op.fn = "handler" /\ op.main \notin {"start", "returned", "threw"}
  /\ op.cname \in {"change", "waitFor"}
  /\ \/ op' = IF op.cname = "change" THEN [op EXCEPT !.cname = "waitFor"]
              ELSE AllResolves([op EXCEPT !.cname = "ok"])
     \/ \E e \in AwsErrors :
          op' = HandlerRejects([op EXCEPT !.cname = "err"],
                               IF op.cname = "change" THEN Wrapped("update record: ", e)
                               ELSE Wrapped("update record: wait for record sets change: ", e),
                               TRUE)
  /\ UNCHANGED <<kind, base, heap0, heap, results, thr>>

\* one attempt of validateCertForDomain: getDomainInfo reads a page
\* without the domain and asks for the next, throws, or gives the domain
\* with its status; with the awaited status the validation records are
\* upserted and the loop ends
ValidateCertForDomain ==
  /\ op.fn = "handler" /\ op.main \notin {"start", "returned", "threw"}
  /\ op.cert.st = "loop" /\ op.cert.i < ATTEMPTS_WAIT_FOR_PENDING
  /\ LET o == [op EXCEPT !.cert.attempts = @ + 1, !.cert.pages = 0]
         prefix == "update validation records for domain: "
     IN \/ /\ op.cert.pages < MaxPages
           /\ op' = [op EXCEPT !.cert.pages = @ + 1]
        \/ \E e \in AwsErrors
                      \cup {[name |-> "Error", message |-> <<"domain is not associated">>]} :
             op' = HandlerRejects([o EXCEPT !.cert.st = "err"], Wrapped(prefix, e), TRUE)
        \/ \E status \in {"creating", "active"} :
             LET n == [o EXCEPT !.cert.lastDomainStatus = status, !.cert.i = @ + 1]
             IN op' = IF n.cert.i = ATTEMPTS_WAIT_FOR_PENDING
                      THEN HandlerRejects([n EXCEPT !.cert.st = "err"],
                                          [name |-> "Error",
                                           message |-> <<prefix, "fail to wait for state ",
                                                         "pending_certificate_dns_validation",
                                                         ", stuck in ", status>>],
                                          TRUE)
                      ELSE n
        \/ LET n == [o EXCEPT !.cert.lastDomainStatus = "pending_certificate_dns_validation",
                              !.cert.upserts = @ + 1]
           IN \/ op' = AllResolves([n EXCEPT !.cert.st = "ok"])
              \/ \E e \in AwsErrors :
                   op' = HandlerRejects([n EXCEPT !.cert.st = "err"],
                                        Wrapped(prefix, Wrapped("update record: ", e)), TRUE)
  /\ UNCHANGED <<kind, base, heap0, heap, results, thr>>

\* an iteration of waitForCustomDomainToBeActive that goes round again
\* however often the domain was not active
WaitForCustomDomainToBeActiveUnbounded ==
  /\ op.fn = "handler" /\ op.main \notin {"start", "returned", "threw"}
  /\ op.h = "wait"
  /\ op' = [op EXCEPT !.wait.calls = @ + 1, !.wait.i = @ + 1, !.wait.seen = "creating"]
  /\ UNCHANGED <<kind, base, heap0, heap, results, thr>>

\* one iteration of waitForCustomDomainToBeActive: describeCustomDomains
\* throws, or lists the domains; the handler resolves when the domain is
\* active
WaitForCustomDomainToBeActive ==
  /\ op.fn = "handler" /\ op.main \notin {"start", "returned", "threw"}
  /\ op.h = "wait" /\ op.wait.i < ATTEMPTS_WAIT_FOR_ACTIVE
  /\ LET o == [op EXCEPT !.wait.calls = @ + 1]
     IN \/ \E e \in AwsErrors :
             op' = HandlerRejects([o EXCEPT !.wait.st = "threw", !.wait.seen = "error"],
                                  Wrapped("wait for domain to be active: ", e), FALSE)
        \/ op' = HandlerRejects([o EXCEPT !.wait.st = "threw", !.wait.seen = "missing"],
                                [name |-> "Error",
                                 message |-> <<"wait for domain to be active: ",
                                               "domain is not associated">>],
                                FALSE)
        \/ \E status \in {"creating", "pending_certificate_dns_validation"} :
             LET n == [o EXCEPT !.wait.seen = status, !.wait.i = @ + 1]
             IN op' = IF n.wait.i = ATTEMPTS_WAIT_FOR_ACTIVE
                      THEN HandlerRejects([n EXCEPT !.wait.st = "threw"],
                                          [name |-> "Error",
                                           message |-> <<"fail to wait for domain to become active">>],
                                          FALSE)
                      ELSE n
        \/ LET n == [o EXCEPT !.wait.st = "returned", !.wait.seen = "active", !.h = "ok"]
           IN op' = IF n.race = "pending"
                    THEN [n EXCEPT !.race = "resolved", !.main = "reportSuccess"]
                    ELSE n
  /\ UNCHANGED <<kind, base, heap0, heap, results, thr>>

\* a catch block that reports FAILED whatever the error
CatchReportsFailed ==
  /\ op.fn = "handler" /\ op.main = "catch"
  /\ \E ok \in BOOLEAN :
       op' = [op EXCEPT !.reports = Append(@, [status |-> "FAILED", reason |-> <<op.err[1].message>>]),
                        !.main = IF ok THEN "returned" ELSE "threw"]
  /\ UNCHANGED <<kind, base, heap0, heap, results, thr>>

\* await report(event, context, "SUCCESS", physicalResourceID) in the try
\* block: the PUT succeeds, or report rejects and the catch block runs
ReportSuccess ==
  /\ op.fn = "handler" /\ op.main = "reportSuccess"
  /\ \E ok \in BOOLEAN :
       op' = [op EXCEPT !.reports = Append(@, [status |-> "SUCCESS", reason |-> NIL]),
                        !.main = IF ok THEN "returned" ELSE "catch",
                        !.err = IF ok THEN @
                                ELSE <<[name |-> "Error", message |-> <<"Error 500: ", "Internal">>]>>]
  /\ UNCHANGED <<kind, base, heap0, heap, results, thr>>

\* the catch block: SUCCESS for the error that says the domain is already
\* associated, FAILED with the message for any other; a report that
\* rejects here rejects the invocation
Catch ==
  /\ op.fn = "handler" /\ op.main = "catch"
  /\ \E ok \in BOOLEAN :
       LET err == op.err[1]
       IN op' = [op EXCEPT !.reports =
                             Append(@, IF err.name = "InvalidRequestException"
                                          /\ IncludesAlreadyAssociated(err.message)
                                       THEN [status |-> "SUCCESS", reason |-> NIL]
                                       ELSE [status |-> "FAILED", reason |-> <<err.message>>]),
                           !.main = IF ok THEN "returned" ELSE "threw"]
  /\ UNCHANGED <<kind, base, heap0, heap, results, thr>>

NextDomain ==
  \/ Invoke
  \/ DeadlineExpired
  \/ AssociateCustomDomain
  \/ UpdateCNAMERecordAndWait
  \/ ValidateCertForDomain
  \/ WaitForCustomDomainToBeActive
  \/ ReportSuccess
  \/ Catch

SpecDomain == InitDomain /\ [][NextDomain]_vars

(***************************************************************************)
(* The claims about the functions, checked in SpecFn.                      *)
(***************************************************************************)
\* the image has a build: a build string that is not "", or one of the
\* five build arguments
BuildNonEmpty(image) ==
  \/ image["Build"]["BuildString"] \notin {<<>>, <<<<>>>>}
  \/ \E f \in {"Context", "Dockerfile", "Args", "Target", "CacheFrom"} :
       image["Build"]["BuildArgs"][f] # NIL

LocationSet(image) == image["Location"] # NIL

\* C11: BuildRequired returns an error when the image has a non-empty build
\* and a location, and when it has neither; it returns true without error
\* when the image has only a build, and false without error when it has
\* only a location.
C11_ExactlyOneSource ==
  op.fn = "BuildRequired" =>
    LET build == BuildNonEmpty(op.image)
        location == LocationSet(op.image)
    IN /\ build /\ location => op.out.err
       /\ ~build /\ ~location => op.out.err
       /\ build /\ ~location => ~op.out.err /\ op.out.required
       /\ ~build /\ location => ~op.out.err /\ ~op.out.required

\* BuildRequired was asked about an image with both a dockerfile and a
\* location, and failed
C11_Witness ==
  /\ op.fn = "BuildRequired" /\ op.kd = "worker"
  /\ op.image["Build"]["BuildArgs"]["Dockerfile"] # NIL
  /\ LocationSet(op.image)
  /\ op.out.err

(***************************************************************************)
(* The image-source invariant after resolution, checked in Spec.           *)
(***************************************************************************)
\* C12: every manifest ApplyEnv returns without error has exactly one of a
\* non-empty build and a location: BuildRequired does not fail on it.
C12_ResolvedHasOneSource ==
  \A i \in Returned :
    ~results[i].err => ~requiresBuild(At(After(i), ImagePath(kind))).err

(***************************************************************************)
(* The claims about BuildConfig, the health checks and the port mapping,   *)
(* checked in SpecFn.                                                      *)
(***************************************************************************)
\* the path root/rel, normalised
Under(root, rel) == Clean(root \o <<"/">> \o rel)

\* the rows of the precedence table that apply to df and ctx, each with the
\* dockerfile and the context it gives
BuildRows(root, df, ctx) ==
  {r \in {[when |-> df # <<>> /\ ctx # <<>>,
           Dockerfile |-> Under(root, df), Context |-> Under(root, ctx)],
          [when |-> df # <<>> /\ ctx = <<>>,
           Dockerfile |-> Under(root, df), Context |-> Under(root, FilepathDir(df))],
          [when |-> df = <<>> /\ ctx # <<>>,
           Dockerfile |-> Under(root, ctx \o <<"/">> \o dockerfileDefaultName),
           Context |-> Under(root, ctx)],
          [when |-> df = <<>> /\ ctx = <<>>,
           Dockerfile |-> Under(root, dockerfileDefaultName), Context |-> root]} : r.when}

\* C13: BuildConfig(root) returns the dockerfile and the context of the one
\* row of the precedence table that applies to df and ctx, and the build
\* args, the target and the cache-from list of the image.
C13_BuildConfigPrecedence ==
  op.fn = "BuildConfig" =>
    LET df == dockerfile(op.image)
        ctx == context(op.image)
        rows == BuildRows(op.rootDirectory, df, ctx)
        buildArgs == op.image["Build"]["BuildArgs"]
    IN /\ Cardinality(rows) = 1
       /\ \A r \in rows :
            /\ op.out["Dockerfile"] = <<r["Dockerfile"]>>
            /\ op.out["Context"] = <<r["Context"]>>
       /\ op.out["Args"] = buildArgs["Args"]
       /\ op.out["Target"] = buildArgs["Target"]
       /\ op.out["CacheFrom"] = buildArgs["CacheFrom"]

\* the dockerfile is given as the build string b/D and there is no context:
\* the context is the directory of the dockerfile under the root
C13_Witness ==
  /\ op.fn = "BuildConfig"
  /\ op.image["Build"]["BuildArgs"]["Dockerfile"] = NIL
  /\ op.image["Build"]["BuildString"] = <<<<"b", "/", "D">>>>
  /\ op.image["Build"]["BuildArgs"]["Context"] = NIL
  /\ op.image["Build"]["BuildArgs"]["Args"] # NIL
  /\ op.rootDirectory = <<"/", "w">>
  /\ op.out["Dockerfile"] = <<<<"/", "w", "/", "b", "/", "D">>>>
  /\ op.out["Context"] = <<<<"/", "w", "/", "b">>>>

\* the receiver and the argument of the health-check call, before and after
TargetBefore == op.pre[<<"hc">>]

TargetAfter == op.post[<<"hc">>]

OtherBefore == op.pre[<<"other">>]

OtherAfter == op.post[<<"other">>]

FieldsOfHealthCheck == {HealthCheckFields[i] : i \in 1..Len(HealthCheckFields)}

\* C14: after apply each of the five fields of the target is other's when
\* other's is non-nil and the target's previous value when other's is nil;
\* other is unchanged.
C14_ApplyOverwritesWithSetFields ==
  op.fn = "apply" =>
    /\ \A f \in FieldsOfHealthCheck :
         TargetAfter[f] = IF OtherBefore[f] # NIL THEN OtherBefore[f] ELSE TargetBefore[f]
    /\ DOMAIN TargetAfter = FieldsOfHealthCheck
    /\ OtherAfter = OtherBefore

\* retries set on both sides is overwritten, a timeout only the target has
\* is kept
C14_Witness ==
  /\ op.fn = "apply"
  /\ TargetBefore["Retries"] = <<2>> /\ OtherBefore["Retries"] = <<5>>
  /\ TargetBefore["Timeout"] = <<5>> /\ OtherBefore["Timeout"] = NIL
  /\ TargetBefore["Command"] # NIL /\ OtherBefore["Command"] = <<<<>>>>
  /\ TargetAfter["Retries"] = <<5>> /\ TargetAfter["Timeout"] = <<5>>
  /\ TargetAfter["Command"] = <<<<>>>>

\* C15: after applyIfNotSet each of the five fields of the target that was
\* non-nil has its previous value and each that was nil has other's value;
\* target retries=2, timeout unset with other retries=5, timeout=10s gives
\* retries=2, timeout=10s; applying it again with the same other changes
\* nothing.
C15_ApplyIfNotSetKeepsSetFields ==
  op.fn = "applyIfNotSet" =>
    /\ \A f \in FieldsOfHealthCheck :
         TargetAfter[f] = IF TargetBefore[f] # NIL THEN TargetBefore[f] ELSE OtherBefore[f]
    /\ DOMAIN TargetAfter = FieldsOfHealthCheck
    /\ OtherAfter = OtherBefore
    /\ (TargetBefore["Retries"] = <<2>> /\ TargetBefore["Timeout"] = NIL
          /\ OtherBefore["Retries"] = <<5>> /\ OtherBefore["Timeout"] = <<10>>)
         => TargetAfter["Retries"] = <<2>> /\ TargetAfter["Timeout"] = <<10>>
    /\ applyIfNotSet(op.post, <<"hc">>, <<"other">>) = op.post

\* the example: retries kept, timeout filled
C15_Witness ==
  /\ op.fn = "applyIfNotSet"
  /\ TargetBefore["Retries"] = <<2>> /\ TargetBefore["Timeout"] = NIL
  /\ OtherBefore["Retries"] = <<5>> /\ OtherBefore["Timeout"] = <<10>>
  /\ TargetAfter["Retries"] = <<2>> /\ TargetAfter["Timeout"] = <<10>>
  /\ TargetAfter # TargetBefore

\* the positions of "/" in the string s
Slashes(s) == {i \in 1..Len(s) : s[i] = "/"}

\* C16: parsePortMapping returns port "80" and no protocol for an unset
\* mapping; for a mapping without "/" the mapping as the port and no
\* protocol; for a mapping with one "/" the part before it as the port and
\* the part after it as the protocol; for every other mapping an error, no
\* port and no protocol.
C16_PortMappingGrammar ==
  op.fn = "parsePortMapping" =>
    IF op.s = NIL
    THEN op.out = [port |-> <<<<"8", "0">>>>, protocol |-> NIL, err |-> FALSE]
    ELSE LET s == op.s[1]
             n == Cardinality(Slashes(s))
         IN /\ n = 0 => op.out = [port |-> <<s>>, protocol |-> NIL, err |-> FALSE]
            /\ n = 1 =>
                 \E i \in Slashes(s) :
                   op.out = [port |-> <<SubSeq(s, 1, i - 1)>>,
                             protocol |-> <<SubSeq(s, i + 1, Len(s))>>, err |-> FALSE]
            /\ n > 1 => op.out = [port |-> NIL, protocol |-> NIL, err |-> TRUE]

\* a mapping with two "/" was rejected
C16_Witness ==
  /\ op.fn = "parsePortMapping"
  /\ op.s = <<<<"8", "/", "u", "/">>>>
  /\ op.out.err /\ op.out.port = NIL /\ op.out.protocol = NIL

(***************************************************************************)
(* The claims about the decoders of the two-form fields, checked in        *)
(* SpecFn.                                                                 *)
(***************************************************************************)
\* the node is a mapping that decodes into the structured form with the
\* fields fs without error, and sets at least one of them
StructuredDecodes(n, fs) ==
  /\ n.kind = "mapping" /\ ~n.badMerge
  /\ \A f \in DOMAIN n.entries \cap fs : n.entries[f].good
  /\ DOMAIN n.entries \cap fs # {}

BuildFields == {"Context", "Dockerfile", "Args", "Target", "CacheFrom"}

\* both forms of the decoded field are set
BothFormsSet ==
  \/ /\ op.fn = "UnmarshalBuild"
     /\ op.out.v["BuildString"] # NIL
     /\ \E f \in BuildFields : op.out.v["BuildArgs"][f] # NIL
  \/ /\ op.fn = "UnmarshalExec"
     /\ op.out.v["Enable"] # NIL
     /\ op.out.v["Config"]["Enable"] # NIL

\* the build field was given in its structured form: it is accepted and
\* the build string is unset, whatever it was
BuildStructuredFormWins ==
  /\ op.fn = "UnmarshalBuild" /\ StructuredDecodes(op.node, BuildFields)
       => op.out.err = "none" /\ op.out.v["BuildString"] = NIL
  /\ op.fn = "UnmarshalBuild" /\ op.out.err = "none" => ~BothFormsSet

\* the execute-command field was given in its structured form: it is
\* accepted and the scalar Enable is unset, whatever it was
ExecStructuredFormWins ==
  /\ op.fn = "UnmarshalExec" /\ StructuredDecodes(op.node, {"Enable"})
       => op.out.err = "none" /\ op.out.v["Enable"] = NIL
  /\ op.fn = "UnmarshalExec" /\ op.out.err = "none" => ~BothFormsSet

\* C17: for the build field and for the execute-command field, a node that
\* decodes into the structured form to a non-empty value is accepted and
\* leaves the scalar form unset whatever the target held before; a decoded
\* value never has both forms set.
C17_StructuredFormWins == BuildStructuredFormWins /\ ExecStructuredFormWins

\* the part of C17 that holds: the build field alone
C17_BuildStructuredFormWins == BuildStructuredFormWins

\* C18: a build field given as a bare string decodes without error to the
\* scalar form: BuildString is that string and the structured form is
\* empty.
C18_BareStringIsScalarForm ==
  op.fn = "UnmarshalBuild" /\ op.node.kind = "scalar" /\ op.node.tag = "str" =>
    /\ op.out.err = "none"
    /\ op.out.v["BuildString"] = <<op.node.val>>
    /\ \A f \in BuildFields : op.out.v["BuildArgs"][f] = NIL

\* the string df was decoded over a build string the target held
C18_Witness ==
  /\ op.fn = "UnmarshalBuild"
  /\ op.node = [kind |-> "scalar", tag |-> "str", val |-> <<"d", "f">>]
  /\ op.target["BuildString"] = <<<<"o", "l", "d">>>>
  /\ op.out.err = "none"
  /\ op.out.v["BuildString"] = <<<<"d", "f">>>>

\* the fields of the structured form of the decoded field
StructuredFields == IF op.fn = "UnmarshalBuild" THEN BuildFields ELSE {"Enable"}

\* the node has the structured shape: a mapping whose values have the types
\* of the fields they are given for
MatchesStructured(n) ==
  /\ n.kind = "mapping" /\ ~n.badMerge
  /\ \A f \in DOMAIN n.entries \cap StructuredFields : n.entries[f].good

\* the node has the scalar shape: a string for build, a boolean for
\* execute-command
MatchesScalar(n) ==
  /\ n.kind = "scalar"
  /\ op.fn = "UnmarshalExec" => n.tag = "bool"

\* the structured decode fails with an error that is no type mismatch
StructuredBroken(n) == n.kind = "mapping" /\ n.badMerge

UnionDecodeError ==
  IF op.fn = "UnmarshalBuild" THEN "errUnmarshalBuildOpts" ELSE "errUnmarshalExec"

UnionDecodeErrors ==
  LET n == op.node
  IN /\ ~MatchesStructured(n) /\ ~MatchesScalar(n) /\ ~StructuredBroken(n)
          => op.out.err = UnionDecodeError
     /\ StructuredBroken(n) => op.out.err = "other"
     /\ op.out.err = "none" => MatchesStructured(n) \/ MatchesScalar(n)

\* C19: the decoder of the build field and of the execute-command field
\* returns the union decode error of the field for a node that has neither
\* the structured nor the scalar shape, returns a structured-decode failure
\* that is no type mismatch as it is, and returns success only for a node
\* that has one of the two shapes.
C19_UnionDecodeErrors ==
  op.fn \in {"UnmarshalBuild", "UnmarshalExec"} => UnionDecodeErrors

\* the part of C19 that holds: the execute-command field alone
C19_ExecUnionDecodeErrors == op.fn = "UnmarshalExec" => UnionDecodeErrors

(***************************************************************************)
(* The claim about the default manifests, checked in SpecFn.               *)
(***************************************************************************)
\* the i-th default built, as a plain value
DefaultValue(i) == ValueOf(op.h, op.built[i].ref, ServiceT(op.built[i].kd))

\* the cells of the i-th default built
DefaultCells(i) == Cells(op.h, op.built[i].ref, ServiceT(op.built[i].kd))

\* the placement of a network configuration, which a worker holds by
\* pointer
PlacementOf(kd, network) ==
  IF kd = "backend" THEN network["VPC"] ELSE network[1]["VPC"]

\* what the claim says of a default manifest of kind kd
IsDefault(kd, m) ==
  LET cfg == m["Config"]
      task == cfg["TaskConfig"]
  IN /\ m["Workload"]["Type"] = <<kd>>
     /\ task["CPU"] = <<256>> /\ task["Memory"] = <<512>>
     /\ task["Count"]["Value"] = <<1>>
     /\ task["Count"]["Autoscaling"] = [Range |-> <<>>, CPU |-> <<>>]
     /\ task["ExecuteCommand"] = [Enable |-> <<FALSE>>, Config |-> [Enable |-> <<>>]]
     /\ cfg["Network"] # <<>>
     /\ PlacementOf(kd, cfg["Network"]) = <<[Placement |-> <<"public">>]>>
     /\ cfg["ImageConfig"]["HealthCheck"] = <<>>
     /\ cfg["Logging"] = <<>>
     /\ cfg["Sidecars"] = <<>>
     /\ m["Environments"] = <<>>
     /\ kd = "worker" => cfg["Subscribe"] = <<[Topics |-> <<>>]>>

\* C20: every default manifest has its type tag, cpu 256, memory 512, count
\* 1 without autoscaling, execute-command disabled, public placement, and
\* no health check, logging, sidecars or environments, the worker's also an
\* empty subscription; two defaults built one after the other have no cell
\* in common.
C20_Defaults ==
  op.fn = "newDefault" =>
    /\ \A i \in 1..Len(op.built) : IsDefault(op.built[i].kd, DefaultValue(i))
    /\ \A i, j \in 1..Len(op.built) : i # j => DefaultCells(i) \cap DefaultCells(j) = {}

\* a backend default and then a worker default were built, each with cells
C20_Witness ==
  /\ op.fn = "newDefault" /\ Len(op.built) = 2
  /\ op.built[1].kd = "backend" /\ op.built[2].kd = "worker"
  /\ DefaultCells(1) # {} /\ DefaultCells(2) # {}
  /\ DefaultValue(2)["Config"]["Subscribe"] # <<>>

(***************************************************************************)
(* The claims about UnmarshalWorkload and the creation of a manifest,      *)
(* checked in SpecFn.                                                      *)
(***************************************************************************)
\* the document is well formed: it is YAML and fits the manifest of its type
WellFormed(doc) == doc.yaml /\ doc.fits

\* C21: UnmarshalWorkload returns a manifest of the type of the document
\* for a well-formed document of any of the four workload types, returns
\* the invalid-type error and no manifest for every other type, and never
\* returns both a manifest and an error.
C21_EveryTypeUnmarshalled ==
  op.fn = "UnmarshalWorkload" =>
    /\ WellFormed(op.doc) /\ op.doc.type # NIL
         /\ op.doc.type[1] \in {"LoadBalancedWebServiceType", "BackendServiceType",
                                "ScheduledJobType", "WorkerServiceType"}
         => op.out.err = "none" /\ op.out.m # NIL /\ op.out.m[1].type = op.doc.type[1]
    /\ op.doc.yaml
         /\ (op.doc.type = NIL
               \/ op.doc.type[1] \notin {"LoadBalancedWebServiceType", "BackendServiceType",
                                         "ScheduledJobType", "WorkerServiceType"})
         => op.out.err = "ErrInvalidWorkloadType" /\ op.out.m = NIL
    /\ ~(op.out.m # NIL /\ op.out.err # "none")

\* the part of C21 that holds: the three types that have a case, the
\* invalid types other than the worker service, and never both results
C21_ThreeTypesUnmarshalled ==
  op.fn = "UnmarshalWorkload" =>
    /\ WellFormed(op.doc) /\ op.doc.type # NIL
         /\ op.doc.type[1] \in {"LoadBalancedWebServiceType", "BackendServiceType",
                                "ScheduledJobType"}
         => op.out.err = "none" /\ op.out.m # NIL /\ op.out.m[1].type = op.doc.type[1]
    /\ op.doc.yaml
         /\ (op.doc.type = NIL
               \/ op.doc.type[1] \notin {"LoadBalancedWebServiceType", "BackendServiceType",
                                         "ScheduledJobType", "WorkerServiceType"})
         => op.out.err = "ErrInvalidWorkloadType" /\ op.out.m = NIL
    /\ ~(op.out.m # NIL /\ op.out.err # "none")

(***************************************************************************)
(* The claims about the stack of a backend service, checked in SpecFn.     *)
(***************************************************************************)
\* the merge of the call failed: the environment has an overlay and
\* mergo.Merge returned an error
MergeFailed ==
  /\ op.fn = "stack.NewBackendService" /\ ~op.addonsErr /\ op.mergeErr
  /\ op.mft["Environments"] # NIL
  /\ op.env \in DOMAIN op.pre[op.mft["Environments"]]
  /\ op.pre[op.mft["Environments"]][op.env] # NIL

OverDefault(given) ==
  [f \in {"Command", "Interval", "Retries", "Timeout", "StartPeriod"} |->
     IF given[f] # NIL THEN given[f]
     ELSE CASE f = "Command" -> <<<<"CMD-SHELL", "curl -f http://localhost/ || exit 1">>>>
            [] f = "Interval" -> <<10>>
            [] f = "Retries" -> <<2>>
            [] f = "Timeout" -> <<5>>
            [] f = "StartPeriod" -> <<0>>]

\* C23: NewBackendService gives the manifest a health check only when the
\* props have one, and then the type default with every field of the props
\* over it; UnmarshalWorkload of a backend service keeps every field of the
\* health check the document set and fills the others from the type
\* default, and leaves the health check unset when the document has none.
C23_HealthCheckCascade ==
  /\ op.fn = "NewBackendService" =>
       LET hc == At(op.out["Config"], HealthCheckPath)
       IN IF op.props.HealthCheck = NIL THEN hc = NIL
          ELSE hc = <<OverDefault(op.props.HealthCheck[1])>>
  /\ op.fn = "UnmarshalWorkload" /\ op.out.err = "none"
       /\ op.doc.type = <<"BackendServiceType">> =>
       IF op.doc.healthcheck = NIL THEN op.out.m[1].HealthCheck = NIL
       ELSE op.out.m[1].HealthCheck = <<OverDefault(op.doc.healthcheck[1])>>

\* a backend service document that sets only retries and timeout was read:
\* the other fields are the default's
C23_Witness ==
  /\ op.fn = "UnmarshalWorkload" /\ op.doc.type = <<"BackendServiceType">>
  /\ op.doc.healthcheck = <<HealthCheckOf(<<>>, <<>>, <<5>>, <<10>>, <<>>)>>
  /\ op.out.err = "none"
  /\ op.out.m[1].HealthCheck =
       <<HealthCheckOf(<<<<"CMD-SHELL", "curl -f http://localhost/ || exit 1">>>>,
                       <<10>>, <<5>>, <<10>>, <<0>>)>>

(***************************************************************************)
(* The health check of a resolved backend manifest, checked in Spec.  The  *)
(* base of Spec has the health check UnmarshalWorkload leaves: none, or    *)
(* one with every field set.                                               *)
(***************************************************************************)
\* imageWithPortAndHealthcheck.HealthCheckOpts, hc being i.HealthCheck as a
\* plain value: nil for no health check; else the options, for which
\* Interval, Retries, StartPeriod and Timeout are dereferenced, a nil one
\* of them being a nil pointer dereference
HealthCheckOpts(hc) ==
  IF hc = NIL THEN [opts |-> NIL, panics |-> FALSE]
  ELSE IF \E f \in {"Interval", "Retries", "StartPeriod", "Timeout"} : hc[1][f] = NIL
  THEN [opts |-> NIL, panics |-> TRUE]
  ELSE [opts |-> <<[Command |-> hc[1]["Command"], Interval |-> hc[1]["Interval"][1],
                    Retries |-> hc[1]["Retries"][1], StartPeriod |-> hc[1]["StartPeriod"][1],
                    Timeout |-> hc[1]["Timeout"][1]]>>,
        panics |-> FALSE]

\* C24: on every resolved backend manifest HealthCheckOpts returns nil or
\* finds interval, retries, timeout and start period set: it dereferences
\* no unset field.
C24_HealthCheckOptsNeverPanics ==
  \A i \in Returned :
    kind = "backend" => ~HealthCheckOpts(At(After(i), HealthCheckPath)).panics

\* the part of C24 that holds: the base resolved for an environment
\* without overlay, or a base that has a health check
C24_BaseHealthCheckNeverPanics ==
  \A i \in Returned :
    /\ kind = "backend" /\ results[i].recv = 0
    /\ ~HasOverlay(i) \/ At(Before(i), HealthCheckPath) # NIL
    => ~HealthCheckOpts(At(After(i), HealthCheckPath)).panics

(***************************************************************************)
(* The claim about the two ApplyEnv methods, checked in SpecFn.            *)
(***************************************************************************)
\* C25: for equal base and overlay values of the fields both kinds have,
\* BackendService.ApplyEnv and WorkerService.ApplyEnv return equal values
\* of these fields.
C25_SameMergeContract == op.fn = "ApplyEnv" => op.backend = op.worker

\* the part of C25 that holds: the fields outside the image
C25_SameMergeOutsideImage ==
  op.fn = "ApplyEnv" =>
    \A f \in {"TaskConfig", "Logging", "Sidecars"} : op.backend[f] = op.worker[f]

\* the number a string of decimal digits stands for
RECURSIVE DecimalValue(_)
DecimalValue(digits) ==
  IF digits = <<>> THEN 0
  ELSE 10 * DecimalValue(SubSeq(digits, 1, Len(digits) - 1))
         + (CHOOSE d \in 0..9 : DigitChars[d + 1] = digits[Len(digits)])

\* the string is the decimal numeral of n
IsDecimalOf(digits, n) ==
  /\ digits # <<>>
  /\ \A i \in 1..Len(digits) : \E d \in 1..10 : DigitChars[d] = digits[i]
  /\ Len(digits) > 1 => digits[1] # "0"
  /\ DecimalValue(digits) = n

\* C26: Parameters returns the parameters of the workload followed by one
\* ContainerPort parameter, whose value is "-1" exactly when the image port
\* of the resolved manifest is unset and the decimal numeral of the port
\* otherwise; the manifest NewBackendService creates for port 0 has the
\* port unset and gives "-1"; when the parameters of the workload fail the
\* error is returned and no list.
C26_ContainerPortParameter ==
  op.fn = "Parameters" =>
    IF op.wkldErr THEN op.out.err /\ op.out.params = NIL
    ELSE /\ ~op.out.err /\ op.out.params # NIL
         /\ LET params == op.out.params[1]
                n == Len(op.svcParams)
            IN /\ Len(params) = n + 1
               /\ SubSeq(params, 1, n) = op.svcParams
               /\ params[n + 1].ParameterKey = "ContainerPort"
               /\ params[n + 1].ParameterValue = <<"-", "1">> <=> op.port = NIL
               /\ op.port # NIL => IsDecimalOf(params[n + 1].ParameterValue, op.port[1])
               /\ op.created # NIL /\ op.created[1].Port = 0 =>
                    op.port = NIL /\ params[n + 1].ParameterValue = <<"-", "1">>

\* the parameters of a stack whose manifest was created with port 0 were
\* returned, after two parameters of the workload
C26_Witness ==
  /\ op.fn = "Parameters" /\ ~op.wkldErr /\ Len(op.svcParams) = 2
  /\ op.created # NIL /\ op.created[1].Port = 0
  /\ op.out.params[1][3] = [ParameterKey |-> "ContainerPort", ParameterValue |-> <<"-", "1">>]

\* Has(seq, x): x is an element of the sequence
Has(seq, x) == \E i \in 1..Len(seq) : seq[i] = x

\* C27: in the init flow Validate returns an error for flags that give both
\* a Dockerfile path and an image; Ask prompts for the image only when no
\* Dockerfile was selected (Docker not found or not responding, or the user
\* chose to use an image) and prompts for no value the flags set; once
\* Validate and Ask returned no error, dockerfilePath and image are not
\* both non-empty.
C27_DockerfileOrImage ==
  op.fn = "init" =>
    /\ (op.pc = "validated" /\ op.flags.dockerfilePath # "" /\ op.flags.image # "")
         => op.err # "none"
    /\ (op.pc = "validated" /\ op.err = "cannot be specified together")
         => (op.flags.dockerfilePath # "" /\ op.flags.image # "")
    /\ op.pc \in {"asked", "executed"} =>
         /\ Has(op.prompted, "image") =>
              /\ op.flags.dockerfilePath = "" /\ op.flags.image = ""
              /\ \/ op.docker \in {"ErrDockerCommandNotFound", "ErrDockerDaemonNotResponsive"}
                 \/ op.docker = "running" /\ op.dockerfile = <<"use image">>
         /\ Has(op.prompted, "type") => op.flags.wkldType = ""
         /\ Has(op.prompted, "name") => op.flags.name = ""
         /\ Has(op.prompted, "dockerfile") => op.flags.dockerfilePath = ""
         /\ Has(op.prompted, "port") => op.flags.port = 0
         /\ (op.pc = "executed" \/ op.err = "none")
              => ~(op.o.dockerfilePath # "" /\ op.o.image # "")

\* C27 witness: Docker runs, the user chose to use an image and was asked
\* for it, and Execute ran with the image and no Dockerfile
C27_Witness ==
  /\ op.fn = "init" /\ op.pc = "executed" /\ op.err = "none"
  /\ op.docker = "running" /\ op.dockerfile = <<"use image">>
  /\ Has(op.prompted, "image") /\ op.o.image = "asked-img" /\ op.o.dockerfilePath = ""

\* the invocation of the custom-domain handler has ended
Completed == op.fn = "handler" /\ op.main \in {"returned", "threw"}

\* the error the try block ended with is the one the catch block forgives
CaughtAlreadyAssociated ==
  /\ op.err # NIL
  /\ op.err[1].name = "InvalidRequestException"
  /\ IncludesAlreadyAssociated(op.err[1].message)

\* both steps of a Create request completed without error, the second
\* after the first, before the deadline
CreateCompletedInOrder ==
  /\ op.RequestType = "Create"
  /\ op.race = "resolved"
  /\ op.cname = "ok" /\ op.cert.st = "ok"
  /\ op.wait.st = "returned" /\ op.wait.seen = "active"

\* C28: the custom-domain handler reports SUCCESS only for a Create request
\* whose addCustomDomain and then waitForCustomDomainToBeActive completed
\* without error before the deadline, or for a caught
\* InvalidRequestException that says the domain is already associated; that
\* error is reported as SUCCESS, and every other caught error, so every
\* Update, Delete and unsupported request type, is reported as FAILED with
\* the error's message.
C28_HandlerOutcome ==
  op.fn = "handler" =>
    /\ \A k \in 1..Len(op.reports) :
         op.reports[k].status = "SUCCESS" =>
           \/ k = 1 /\ CreateCompletedInOrder
           \/ op.race = "rejected" /\ CaughtAlreadyAssociated
    /\ op.wait.st # "idle" => op.cname = "ok" /\ op.cert.st = "ok"
    /\ (Completed /\ op.err # NIL) =>
         op.reports[Len(op.reports)] =
           IF CaughtAlreadyAssociated
           THEN [status |-> "SUCCESS", reason |-> NIL]
           ELSE [status |-> "FAILED", reason |-> <<op.err[1].message>>]
    /\ (Completed /\ op.RequestType # "Create") =>
         /\ op.err # NIL
         /\ op.reports[Len(op.reports)].status = "FAILED"

\* a Create request went through both steps and SUCCESS was reported, and
\* nothing else
C28_Witness ==
  /\ Completed /\ CreateCompletedInOrder
  /\ op.err = NIL
  /\ op.reports = <<[status |-> "SUCCESS", reason |-> NIL]>>

\* C29: every invocation of the custom-domain handler that completes has
\* sent exactly one report, SUCCESS or FAILED and never both, whatever the
\* request type, the outcomes of the AWS calls and the outcome of the
\* report call.
C29_ExactlyOneReport ==
  Completed =>
    /\ Len(op.reports) = 1
    /\ op.reports[1].status \in {"SUCCESS", "FAILED"}

\* a completed invocation has sent one report, or SUCCESS and then FAILED
\* with the error the SUCCESS report was rejected with
C29_OneReportUnlessSuccessRejected ==
  Completed =>
    \/ Len(op.reports) = 1 /\ op.reports[1].status \in {"SUCCESS", "FAILED"}
    \/ /\ CreateCompletedInOrder
       /\ op.reports = <<[status |-> "SUCCESS", reason |-> NIL],
                         [status |-> "FAILED", reason |-> <<op.err[1].message>>]>>

\* C30: both polling loops of the custom-domain script are bounded and end
\* in a definite outcome.  waitForCustomDomainToBeActive makes at most 12
\* describe calls, returns normally only after a call that saw the domain
\* active, and has thrown once a call failed or saw the domain missing, or
\* once 12 calls saw it not active.  validateCertForDomain makes at most 10
\* attempts, upserts the validation records only on an attempt that saw
\* the status pending_certificate_dns_validation, and has thrown once 10
\* attempts saw another status.
C30_PollingLoopsBounded ==
  op.fn = "handler" =>
    /\ op.wait.calls <= ATTEMPTS_WAIT_FOR_ACTIVE
    /\ op.wait.i <= op.wait.calls
    /\ op.wait.st = "returned" => op.wait.seen = "active"
    /\ op.wait.seen = "active" => op.wait.st = "returned"
    /\ op.wait.seen \in {"missing", "error"} => op.wait.st = "threw"
    /\ op.wait.i = ATTEMPTS_WAIT_FOR_ACTIVE =>
         op.wait.st = "threw" /\ op.wait.seen \notin {"active", "missing", "error"}
    /\ op.wait.st = "threw" =>
         op.wait.seen \in {"missing", "error"} \/ op.wait.i = ATTEMPTS_WAIT_FOR_ACTIVE
    /\ op.cert.attempts <= ATTEMPTS_WAIT_FOR_PENDING
    /\ op.cert.i <= op.cert.attempts
    /\ op.cert.upserts <= 1
    /\ op.cert.upserts > 0 =>
         op.cert.lastDomainStatus = "pending_certificate_dns_validation"
    /\ op.cert.st = "ok" => op.cert.upserts = 1
    /\ op.cert.i = ATTEMPTS_WAIT_FOR_PENDING =>
         op.cert.st = "err" /\ op.cert.upserts = 0

\* the certificate was validated on the tenth attempt, and the wait gave up
\* after twelve calls that saw the domain not active
C30_Witness ==
  /\ op.fn = "handler"
  /\ op.cert.st = "ok" /\ op.cert.attempts = ATTEMPTS_WAIT_FOR_PENDING
  /\ op.cert.i = ATTEMPTS_WAIT_FOR_PENDING - 1
  /\ op.wait.st = "threw" /\ op.wait.calls = ATTEMPTS_WAIT_FOR_ACTIVE
  /\ op.wait.i = ATTEMPTS_WAIT_FOR_ACTIVE

====
